---- MODULE Spec2Model ----
(***************************************************************************)
(* Meeting Transcriber: the background coordinator                         *)
(* (src/src/background/index.ts), the per-tab content script               *)
(* (src/unnamed/part_000), the transcription client                        *)
(* (src/src/lib/assemblyAIService.ts) and the summarization client         *)
(* (src/src/lib/geminiService.ts), as one state machine.                   *)
(*                                                                         *)
(* Every action is one JavaScript turn: the code that runs between two     *)
(* awaits of an async function, or one event handler.  Messages between    *)
(* the contexts and the continuations of awaits are explicit state, so     *)
(* the turns interleave as the event loops allow.                          *)
(*                                                                         *)
(* Strings are sequences of tokens; a template literal is the              *)
(* concatenation of its parts, and "text contains E" is token membership.  *)
(***************************************************************************)
EXTENDS Integers, Sequences, FiniteSets, TLC

\* ------------------------------------------------------------------ bounds
MaxClock == 1
MaxInbox == 1
MaxActs == 1
MaxRuns == 1
MaxGum == 1
MaxLeak == 1

\* The tab ids that exist, and the tabs the main specification drives.
AllTabs == {1, 2}
MainTabs == {1}

VARIABLES
    keys,               \* browser.storage.sync: are the two API keys non-empty
    autoTranscribe,     \* browser.storage.sync: the auto-transcribe flag
    page,               \* per tab: the page loaded, "none" when no content script lives
    cs,                 \* per tab: the content script's module-level state
    activeMeetingTabs,  \* background: tab id -> MeetingTabData, None when absent
    inbox,              \* messages sent to the background's onMessage listener
    acts,               \* background activations waiting on the content script
    runs,               \* processRecording activations
    input,              \* the argument of a function applied on its own
    output              \* the last value returned to a caller that asked for one

vars == <<keys, autoTranscribe, page, cs, activeMeetingTabs, inbox, acts, runs, input, output>>

\* ------------------------------------------------------- strings as tokens
Contains(text, tok) == \E i \in 1..Len(text) : text[i] = tok

\* Number.prototype.toString for a non-negative integer: its decimal digits.
DigitChar(d) == <<"0", "1", "2", "3", "4", "5", "6", "7", "8", "9">>[d + 1]

RECURSIVE Digits(_)
Digits(n) == IF n < 10 THEN <<DigitChar(n)>> ELSE Digits(n \div 10) \o <<DigitChar(n % 10)>>

\* String.prototype.padStart(2, '0') on a digit string.
PadStart2(ds) == IF Len(ds) < 2 THEN <<"0">> \o ds ELSE ds

\* formatTimestamp with an hour component: the minutes roll over at 60
formatTimestamp_HourRollover(milliseconds) ==
    LET totalSeconds == milliseconds \div 1000
        minutes == (totalSeconds \div 60) % 60
        seconds == totalSeconds % 60
    IN  PadStart2(Digits(minutes)) \o <<":">> \o PadStart2(Digits(seconds))

\* formatTimestamp(milliseconds): "mm:ss".
formatTimestamp(milliseconds) ==
    LET totalSeconds == milliseconds \div 1000
        minutes == totalSeconds \div 60
        seconds == totalSeconds % 60
    IN  PadStart2(Digits(minutes)) \o <<":">> \o PadStart2(Digits(seconds))

\* ------------------------------------------------------- optional values
\* null / undefined / an absent JSON field is None, a present value is Some(v).
None == <<>>
Some(v) == <<v>>
IsSome(o) == o # <<>>
Get(o) == o[1]

\* ------------------------------------------- the speech service's replies
Utterance(sp, tx, st) == [speaker |-> sp, text |-> tx, start |-> st]
Chapter(hl, sm, st, en) == [headline |-> hl, summary |-> sm, start |-> st, end |-> en]

\* The body of a poll reply: {status, utterances?, chapters?, error?}.
PollBody(st, us, cs_, er) == [status |-> st, utterances |-> us, chapters |-> cs_, error |-> er]

TwoUtterances ==
    <<Utterance("A", "hello", 0), Utterance("B", "ship it", 61000)>>
OneChapter == <<Chapter("Kickoff", "Plans", 0, 3600000)>>

PollBodies ==
    { PollBody("queued", None, None, None),
      PollBody("processing", None, None, None),
      PollBody("completed", Some(TwoUtterances), Some(OneChapter), None),
      PollBody("completed", Some(<<>>), None, None),
      PollBody("error", None, None, Some("decode failure")) }

\* An HTTP reply: ok is Response.ok, statusText its status text, body its JSON.
HttpReply(ok, st, body) == [ok |-> ok, statusText |-> st, body |-> body]

PollReplies ==
    { HttpReply(TRUE, "OK", b) : b \in PollBodies }
        \cup { HttpReply(FALSE, "Bad Gateway", PollBody("queued", None, None, None)) }

\* upload and submit replies carry only an opaque reference
PlainReplies == { HttpReply(TRUE, "OK", None), HttpReply(FALSE, "Unauthorized", None) }

\* the formatting giving a placeholder entry, not [], for an absent list
FormatTranscript_PlaceholderWhenAbsent(transcript) ==
    [ transcript |->
        IF IsSome(transcript.utterances)
        THEN [ i \in 1..Len(Get(transcript.utterances)) |->
                 LET utterance == Get(transcript.utterances)[i]
                 IN  [ speaker |-> <<"Speaker ", utterance.speaker>>,
                       text |-> utterance.text,
                       timestamp |-> formatTimestamp(utterance.start) ] ]
        ELSE << [ speaker |-> <<"Speaker ", "unknown">>, text |-> "",
                  timestamp |-> formatTimestamp(0) ] >>,
      chapters |->
        IF IsSome(transcript.chapters)
        THEN [ i \in 1..Len(Get(transcript.chapters)) |->
                 LET chapter == Get(transcript.chapters)[i]
                 IN  [ title |-> chapter.headline,
                       summary |-> chapter.summary,
                       start |-> formatTimestamp(chapter.start),
                       end |-> formatTimestamp(chapter.end) ] ]
        ELSE << [ title |-> "", summary |-> "",
                  start |-> formatTimestamp(0), end |-> formatTimestamp(0) ] >> ]

\* Step 4 of transcribeAudio: the formatted transcript.
FormatTranscript(transcript) ==
    [ transcript |->
        IF IsSome(transcript.utterances)
        THEN [ i \in 1..Len(Get(transcript.utterances)) |->
                 LET utterance == Get(transcript.utterances)[i]
                 IN  [ speaker |-> <<"Speaker ", utterance.speaker>>,
                       text |-> utterance.text,
                       timestamp |-> formatTimestamp(utterance.start) ] ]
        ELSE <<>>,
      chapters |->
        IF IsSome(transcript.chapters)
        THEN [ i \in 1..Len(Get(transcript.chapters)) |->
                 LET chapter == Get(transcript.chapters)[i]
                 IN  [ title |-> chapter.headline,
                       summary |-> chapter.summary,
                       start |-> formatTimestamp(chapter.start),
                       end |-> formatTimestamp(chapter.end) ] ]
        ELSE <<>> ]

\* --------------------------------------- the generative service's replies
\* The body of a generation reply.  wellFormed says whether
\* candidates[0].content.parts[0].text exists; text is that string.
GenBody(wf, text) == [wellFormed |-> wf, text |-> text]

\* Tokens of an action-item reply: "[", "]", "{", "}", ",", "ws" (white
\* space), "fence" (three backticks), "json", "w" (prose without brackets), and the members of
\* one JSON object ("a", "b").
ItemBodies == {"a", "b"}

\* The action item a JSON object {body} parses to.
ItemOf(body) ==
    [text |-> body, assignee |-> "Unassigned", speaker |-> "Speaker A", timestamp |-> "01:01"]

SubSeqOrEmpty(s, a, b) == IF a > b THEN <<>> ELSE SubSeq(s, a, b)

AllWs(s, a, b) == \A k \in a..b : s[k] = "ws"

\* The bracket pattern of line 136 is: "[", white space, "{", any text, "}",
\* white space, "]".  The positions j of a "{" that follows the "[" at i:
BraceAfter(s, i) ==
    { j \in (i + 1)..Len(s) : s[j] = "{" /\ AllWs(s, i + 1, j - 1) }

\* the positions e of a "]" that ends: "}", white space, "]", after the "{" at j
CloseAfter(s, j) ==
    { e \in (j + 1)..Len(s) :
        s[e] = "]" /\ \E c \in (j + 1)..(e - 1) : s[c] = "}" /\ AllWs(s, c + 1, e - 1) }

Min(S) == CHOOSE x \in S : \A y \in S : x <= y
Max(S) == CHOOSE x \in S : \A y \in S : x >= y

\* actionItemsText.match(bracket pattern): None, or Some(the matched text):
\* the leftmost start, and from it the longest match (the inner text is greedy).
JsonMatch(s) ==
    LET starts == { i \in 1..Len(s) :
                      s[i] = "[" /\ \E j \in BraceAfter(s, i) : CloseAfter(s, j) # {} }
    IN  IF starts = {} THEN None
        ELSE LET i == Min(starts)
                 j == Min(BraceAfter(s, i))
             IN  Some(SubSeq(s, i, Max(CloseAfter(s, j))))

\* actionItemsText.match(fence pattern of line 141): None, or Some(group 1):
\* the leftmost fence, the optional word json, white space, and the shortest
\* text up to the next fence.
CodeBlockMatch(s) ==
    LET opens == { i \in 1..Len(s) :
                     s[i] = "fence" /\ \E c \in (i + 1)..Len(s) : s[c] = "fence" }
    IN  IF opens = {} THEN None
        ELSE LET i == Min(opens)
                 close == Min({ c \in (i + 1)..Len(s) : s[c] = "fence" })
                 a == IF i + 1 < close /\ s[i + 1] = "json" THEN i + 2 ELSE i + 1
                 ws == { k \in a..close : AllWs(s, a, k - 1) }
             IN  Some(SubSeqOrEmpty(s, Max(ws), close - 1))

RECURSIVE StripWs(_)
StripWs(s) ==
    IF s = <<>> THEN <<>>
    ELSE IF Head(s) = "ws" THEN StripWs(Tail(s)) ELSE <<Head(s)>> \o StripWs(Tail(s))

\* JSON.parse of a token text.  The result is [ok, isArray, items]: ok is
\* FALSE when JSON.parse throws; a JSON value that is no array has isArray
\* FALSE.  Values: an array of objects, or one object.
IsObjectAt(t, k) == k + 2 <= Len(t) /\ t[k] = "{" /\ t[k + 1] \in ItemBodies /\ t[k + 2] = "}"

JsonParse(s) ==
    LET t == StripWs(s)
        n == Len(t)
        bad == [ok |-> FALSE, isArray |-> FALSE, items |-> <<>>]
    IN  IF n = 3 /\ IsObjectAt(t, 1)
        THEN [ok |-> TRUE, isArray |-> FALSE, items |-> <<ItemOf(t[2])>>]
        ELSE IF n >= 2 /\ t[1] = "[" /\ t[n] = "]"
        THEN IF n = 2 THEN [ok |-> TRUE, isArray |-> TRUE, items |-> <<>>]
             ELSE IF (n - 2) % 4 = 3
                     /\ \A q \in 0..((n - 5) \div 4) :
                          /\ IsObjectAt(t, 2 + 4 * q)
                          /\ (5 + 4 * q < n => t[5 + 4 * q] = ",")
             THEN [ok |-> TRUE, isArray |-> TRUE,
                   items |-> [ q \in 1..((n - 1) \div 4) |-> ItemOf(t[4 * q - 1]) ]]
             ELSE bad
        ELSE bad

FallbackItem(text) ==
    [text |-> text, assignee |-> "Unassigned", speaker |-> "System", timestamp |-> "00:00"]

\* generateSummary lines 133-162: the action items of a reply text, as
\* [isArray, items].
ExtractActionItems(actionItemsText) ==
    LET jsonMatch == JsonMatch(actionItemsText)
        codeBlockMatch == CodeBlockMatch(actionItemsText)
        candidate == IF IsSome(jsonMatch) THEN jsonMatch ELSE codeBlockMatch
    IN  IF ~IsSome(candidate)
        THEN [isArray |-> TRUE, items |-> <<FallbackItem("Could not parse action items")>>]
        ELSE LET parsed == JsonParse(Get(candidate))
             IN  IF parsed.ok
                 THEN [isArray |-> parsed.isArray, items |-> parsed.items]
                 ELSE [isArray |-> TRUE, items |-> <<FallbackItem("Error parsing action items")>>]

\* ------------------------------------------------------------- the state
RemoveAt(s, i) == SubSeqOrEmpty(s, 1, i - 1) \o SubSeqOrEmpty(s, i + 1, Len(s))

\* MeetingTabData as handleMeetingDetected creates it (index.ts 90-96)
NewMeetingTabData(platform) ==
    [ platform |-> platform, recording |-> FALSE, startTime |-> None,
      transcript |-> None, summary |-> None ]

\* The content script's module-level variables after it loads
\* (part_000 5-14), with the status element injectUI creates (line 145).
\*   gumPending: calls of getUserMedia not yet settled
\*   leaked: streams acquired whose tracks run and that mediaStream no
\*           longer references
\*   speakerUI: the text of the current speaker display (line 158)
InitCs ==
    [ isRecording |-> FALSE, mediaStream |-> "null", mediaRecorder |-> "null",
      audioChunks |-> 0, gumPending |-> 0, leaked |-> 0,
      statusUI |-> <<"Ready to record">>,
      currentSpeaker |-> None, speakerHistory |-> <<>>,
      speakerUI |-> <<"Current speaker: ", "None">> ]

\* A message to the background's onMessage listener.  senderTab is
\* sender.tab?.id and tabId is message.tabId, 0 when undefined (tab ids are
\* positive); audio is the audioData of a processRecording message; reply
\* says that the content script's then-handler (part_000 37-44) waits for
\* the result.
Msg(action, senderTab, tabId, audio, reply) ==
    [ action |-> action, senderTab |-> senderTab, tabId |-> tabId,
      platform |-> "", audio |-> audio, reply |-> reply ]

\* message.tabId || tabId!  (index.ts 44-59)
TargetTab(m) == IF m.tabId # 0 THEN m.tabId ELSE m.senderTab

\* An activation of handleMeetingDetected / startRecordingInTab /
\* stopRecordingInTab suspended at an await.
Act(kind, tab, pc) == [kind |-> kind, tab |-> tab, pc |-> pc]

\* An activation of processRecording.
\*   stored: lines 212-213 ran in this activation
\*   reply:  the content script that sent the message still waits for the result
\*   recreated: handleMeetingDetected replaced the tab's session (line 91)
\*           while this activation was in flight
Run(tab, audio, reply) ==
    [ tab |-> tab, pc |-> "status1", audio |-> audio, transcript |-> None,
      summary |-> None, error |-> <<>>, stored |-> FALSE, reply |-> reply,
      recreated |-> FALSE ]

\* checkApiKeys (index.ts 142-156): the valid field of its result
KeysValid == keys.assemblyAiKey /\ keys.geminiKey

Alive(t) == page[t] # "none"

\* onInstalled (index.ts 18-27) has run: both keys '', autoTranscribe false.
\* The extension as installed: no keys, no page, no session, nothing in flight.
Installed ==
    /\ keys = [assemblyAiKey |-> FALSE, geminiKey |-> FALSE]
    /\ autoTranscribe = FALSE
    /\ page = [t \in AllTabs |-> "none"]
    /\ cs = [t \in AllTabs |-> InitCs]
    /\ activeMeetingTabs = [t \in AllTabs |-> None]
    /\ inbox = <<>>
    /\ acts = <<>>
    /\ runs = <<>>

Init ==
    /\ Installed
    /\ input = None
    /\ output = None

\* ------------------------------------------------------- the environment
\* Options.saveSettings: both keys must be non-empty, then all three
\* settings are stored.
SaveSettings(auto) ==
    /\ keys' = [assemblyAiKey |-> TRUE, geminiKey |-> TRUE]
    /\ autoTranscribe' = auto
    /\ UNCHANGED <<input, output, page, cs, activeMeetingTabs, inbox, acts, runs>>

\* browser.storage.sync is an external, synchronised store: its content
\* can change to any value without the extension's pages.
StorageChanged(a, g, auto) ==
    /\ keys' = [assemblyAiKey |-> a, geminiKey |-> g]
    /\ autoTranscribe' = auto
    /\ UNCHANGED <<input, output, page, cs, activeMeetingTabs, inbox, acts, runs>>

\* A meeting page finishes loading in tab t and the content script runs
\* initialize() (part_000 55-66): detectMeetingPlatform sends
\* meetingDetected; injectUI asks checkApiKeys (index.ts 142-156) and shows
\* a warning when the keys are not valid (part_000 187-191; the round trip
\* is folded into the load).
KeysWarning ==
    <<"Warning: ", "Please set your AssemblyAI and Gemini API keys in the extension options">>

PageLoad(t, platform) ==
    /\ page[t] = "none"
    /\ Len(inbox) < MaxInbox
    /\ page' = [page EXCEPT ![t] = platform]
    /\ cs' = [cs EXCEPT ![t] = IF KeysValid THEN InitCs
                                ELSE [InitCs EXCEPT !.statusUI = KeysWarning]]
    /\ inbox' = Append(inbox, [Msg("meetingDetected", t, 0, 0, FALSE) EXCEPT !.platform = platform])
    /\ UNCHANGED <<input, output, keys, autoTranscribe, activeMeetingTabs, acts, runs>>

\* The tab closes or leaves the meeting page: the content script and its
\* capture are gone, messages to it are rejected, and nothing waits for
\* replies any more.  No listener of the background runs (index.ts
\* registers none for tab removal; onUpdated, lines 64-83, only injects).
PageUnload(t) ==
    /\ page[t] # "none"
    /\ page' = [page EXCEPT ![t] = "none"]
    /\ cs' = [cs EXCEPT ![t] = InitCs]
    /\ acts' = SelectSeq(acts, LAMBDA a : ~(a.tab = t /\ a.pc \in {"toContent", "stopping"}))
    /\ runs' = [i \in 1..Len(runs) |->
                  IF runs[i].tab = t THEN [runs[i] EXCEPT !.reply = FALSE] ELSE runs[i]]
    /\ UNCHANGED <<input, output, keys, autoTranscribe, activeMeetingTabs, inbox>>

\* handleRecordClick (part_000 223-236).  The checkApiKeys round trip is
\* folded into the click: the start message is sent only when the keys
\* were valid.
ClickRecord(t) ==
    /\ Alive(t)
    /\ Len(inbox) < MaxInbox
    /\ IF ~cs[t].isRecording
       THEN inbox' = IF KeysValid
                     THEN Append(inbox, Msg("startRecording", t, 0, 0, FALSE))
                     ELSE inbox
       ELSE inbox' = Append(inbox, Msg("stopRecording", t, 0, 0, FALSE))
    /\ UNCHANGED <<input, output, keys, autoTranscribe, page, cs, activeMeetingTabs, acts, runs>>

\* The popup's startRecording and stopRecording (Popup.tsx 108-162): the
\* message names the tab in tabId; the popup is no tab, so sender.tab is
\* undefined.  startRecording is sent only after the popup found both keys.
PopupCommand(t, action) ==
    /\ Len(inbox) < MaxInbox
    /\ action \in {"startRecording", "stopRecording"}
    /\ action = "startRecording" => KeysValid
    /\ inbox' = Append(inbox, Msg(action, 0, t, 0, FALSE))
    /\ UNCHANGED <<input, output, keys, autoTranscribe, page, cs, activeMeetingTabs, acts, runs>>

\* The popup's checkForActiveMeeting (Popup.tsx 59-88) for the active tab
\* t showing a meeting: it asks for the recording status of the tab.
PopupCheckStatus(t) ==
    /\ Alive(t)
    /\ Len(inbox) < MaxInbox
    /\ inbox' = Append(inbox, Msg("checkRecordingStatus", 0, t, 0, FALSE))
    /\ UNCHANGED <<input, output, keys, autoTranscribe, page, cs, activeMeetingTabs, acts, runs>>

\* The listener (index.ts 30-61) accepts a message from every sender: a
\* start, stop, processRecording or saveTranscript message sent from tab
\* t's extension context without the checks handleRecordClick makes first.
DirectMessage(t, action, audio) ==
    /\ Alive(t)
    /\ Len(inbox) < MaxInbox
    /\ action \in {"startRecording", "stopRecording", "processRecording", "saveTranscript",
                   "checkRecordingStatus"}
    /\ audio = 0 \/ action = "processRecording"
    /\ inbox' = Append(inbox, Msg(action, t, 0, audio, FALSE))
    /\ UNCHANGED <<input, output, keys, autoTranscribe, page, cs, activeMeetingTabs, acts, runs>>

\* ------------------------------------------ the background's listener
\* updateStatusUI in tab t (part_000 48-50, 365-370)
WithStatus(c, t, text) == [c EXCEPT ![t].statusUI = text]

HasSession(t) == IsSome(activeMeetingTabs[t])
Session(t) == Get(activeMeetingTabs[t])

\* What the sender of a message receives when the listener returns nothing.
Undefined == [undefined |-> TRUE]

\* What the sender receives when the promise the listener returned rejects.
Rejected == [rejected |-> TRUE]

\* index.ts 34-37: no sender tab (and the action is not checkApiKeys): the
\* listener returns.  The popup waits for the answer to its status request,
\* and a sender that awaits the result of its message receives undefined.
BgDrop ==
    /\ inbox # <<>>
    /\ Head(inbox).senderTab = 0
    /\ inbox' = Tail(inbox)
    /\ output' = IF Head(inbox).action = "checkRecordingStatus" \/ Head(inbox).reply
                 THEN Some(Undefined) ELSE output
    /\ UNCHANGED <<input, keys, autoTranscribe, page, cs, activeMeetingTabs, acts, runs>>

\* handleMeetingDetected up to its first await (index.ts 86-99)
BgMeetingDetected ==
    /\ inbox # <<>>
    /\ Len(acts) < MaxActs
    /\ LET m == Head(inbox) IN
        /\ m.senderTab # 0
        /\ m.action = "meetingDetected"
        /\ activeMeetingTabs' =
              [activeMeetingTabs EXCEPT ![m.senderTab] = Some(NewMeetingTabData(m.platform))]
        /\ acts' = Append(acts, Act("detect", m.senderTab, "badge"))
        /\ runs' = [i \in 1..Len(runs) |->
                      IF runs[i].tab = m.senderTab
                      THEN [runs[i] EXCEPT !.recreated = TRUE] ELSE runs[i]]
    /\ inbox' = Tail(inbox)
    /\ UNCHANGED <<input, output, keys, autoTranscribe, page, cs>>

\* startRecordingInTab up to its await (index.ts 114-116): the activations
\* with the startRecording message to the content script sent.  A message
\* to a tab without content script is rejected and the function throws.
StartRecordingInTab(as, tabId) ==
    IF HasSession(tabId) /\ Alive(tabId)
    THEN Append(as, Act("start", tabId, "toContent"))
    ELSE as

\* stopRecordingInTab without the test of session.recording in line 126
StopRecordingInTab_AnySession(as, tabId) ==
    IF HasSession(tabId) /\ Alive(tabId)
    THEN Append(as, Act("stop", tabId, "toContent"))
    ELSE as

\* stopRecordingInTab up to its await (index.ts 125-127)
StopRecordingInTab(as, tabId) ==
    IF HasSession(tabId) /\ Session(tabId).recording /\ Alive(tabId)
    THEN Append(as, Act("stop", tabId, "toContent"))
    ELSE as

\* the auto-start policy without the test of keyStatus.valid in line 107
BgDetectContinue_NoKeyCheck(i) ==
    /\ i \in 1..Len(acts)
    /\ acts[i].kind = "detect"
    /\ acts' = IF autoTranscribe
               THEN StartRecordingInTab(RemoveAt(acts, i), acts[i].tab)
               ELSE RemoveAt(acts, i)
    /\ UNCHANGED <<input, output, keys, autoTranscribe, page, cs, activeMeetingTabs, inbox, runs>>

\* handleMeetingDetected after setBadgeText and storage.get (index.ts
\* 101-110): the auto-start policy.
BgDetectContinue(i) ==
    /\ i \in 1..Len(acts)
    /\ acts[i].kind = "detect"
    /\ acts' = IF autoTranscribe /\ KeysValid
               THEN StartRecordingInTab(RemoveAt(acts, i), acts[i].tab)
               ELSE RemoveAt(acts, i)
    /\ UNCHANGED <<input, output, keys, autoTranscribe, page, cs, activeMeetingTabs, inbox, runs>>

\* What a sender that awaits the result of its startRecording message
\* receives when the listener's turn ends (index.ts 114-116): undefined at
\* once when the tab has no session (the test of line 115 fails and the
\* function returns), a rejection when tabs.sendMessage finds no content
\* script, and nothing yet while the start is under way.
StartReply(m, out) ==
    IF ~m.reply THEN out
    ELSE IF ~HasSession(TargetTab(m)) THEN Some(Undefined)
    ELSE IF ~Alive(TargetTab(m)) THEN Some(Rejected)
    ELSE out

\* case 'startRecording' (index.ts 43-44)
BgStartRecording ==
    /\ inbox # <<>>
    /\ Len(acts) < MaxActs
    /\ LET m == Head(inbox) IN
        /\ m.senderTab # 0
        /\ m.action = "startRecording"
        /\ acts' = StartRecordingInTab(acts, TargetTab(m))
        /\ output' = StartReply(m, output)
    /\ inbox' = Tail(inbox)
    /\ UNCHANGED <<input, keys, autoTranscribe, page, cs, activeMeetingTabs, runs>>

\* case 'stopRecording' (index.ts 46-47).  max bounds the activations
\* waiting on the content script.
StopCommand(max) ==
    /\ inbox # <<>>
    /\ Len(acts) < max
    /\ LET m == Head(inbox) IN
        /\ m.senderTab # 0
        /\ m.action = "stopRecording"
        /\ acts' = StopRecordingInTab(acts, TargetTab(m))
    /\ inbox' = Tail(inbox)
    /\ UNCHANGED <<input, output, keys, autoTranscribe, page, cs, activeMeetingTabs, runs>>

BgStopRecording == StopCommand(MaxActs)

\* case 'processRecording' (index.ts 49-50): processRecording up to its
\* first await (lines 159-165), the first status message sent.
\* max bounds the activations of processRecording in flight.
ProcessRecording(max) ==
    /\ inbox # <<>>
    /\ Len(runs) < max
    /\ LET m == Head(inbox) IN
        /\ m.senderTab # 0
        /\ m.action = "processRecording"
        /\ runs' = Append(runs, Run(TargetTab(m), m.audio, m.reply /\ Alive(m.senderTab)))
    /\ inbox' = Tail(inbox)
    /\ UNCHANGED <<input, output, keys, autoTranscribe, page, cs, activeMeetingTabs, acts>>

BgProcessRecording == ProcessRecording(MaxRuns)

\* getRecordingStatus (index.ts 135-139)
getRecordingStatus(tabs, tabId) ==
    [recording |-> IF tabId \in DOMAIN tabs /\ IsSome(tabs[tabId])
                   THEN Get(tabs[tabId]).recording ELSE FALSE]

\* case 'checkRecordingStatus' (index.ts 58-59)
BgCheckRecordingStatus ==
    /\ inbox # <<>>
    /\ Head(inbox).senderTab # 0
    /\ Head(inbox).action = "checkRecordingStatus"
    /\ output' = Some(getRecordingStatus(activeMeetingTabs, TargetTab(Head(inbox))))
    /\ inbox' = Tail(inbox)
    /\ UNCHANGED <<input, keys, autoTranscribe, page, cs, activeMeetingTabs, acts, runs>>

\* case 'saveTranscript' (index.ts 55-56, 237-245): a report tab opens; no
\* state of the coordinator changes.
BgSaveTranscript ==
    /\ inbox # <<>>
    /\ Head(inbox).senderTab # 0
    /\ Head(inbox).action = "saveTranscript"
    /\ inbox' = Tail(inbox)
    /\ UNCHANGED <<input, output, keys, autoTranscribe, page, cs, activeMeetingTabs, acts, runs>>

\* startRecordingInTab after its await (index.ts 117-118).  date is the
\* value of new Date(): the clock never runs backwards.
BgStartResume(i, date) ==
    /\ i \in 1..Len(acts)
    /\ acts[i].kind = "start" /\ acts[i].pc = "resume"
    /\ date \in 0..MaxClock
    /\ IsSome(Session(acts[i].tab).startTime) => date >= Get(Session(acts[i].tab).startTime)
    /\ activeMeetingTabs' =
          [activeMeetingTabs EXCEPT ![acts[i].tab] =
              Some([Session(acts[i].tab) EXCEPT !.recording = TRUE, !.startTime = Some(date)])]
    /\ acts' = RemoveAt(acts, i)
    /\ UNCHANGED <<input, output, keys, autoTranscribe, page, cs, inbox, runs>>

\* stopRecordingInTab deleting the session of the tab it stopped
BgStopResume_EndsSession(i) ==
    /\ i \in 1..Len(acts)
    /\ acts[i].kind = "stop" /\ acts[i].pc = "resume"
    /\ activeMeetingTabs' = [activeMeetingTabs EXCEPT ![acts[i].tab] = None]
    /\ acts' = RemoveAt(acts, i)
    /\ UNCHANGED <<input, output, keys, autoTranscribe, page, cs, inbox, runs>>

\* stopRecordingInTab clearing the recording flag of every session
BgStopResume_StopsAll(i) ==
    /\ i \in 1..Len(acts)
    /\ acts[i].kind = "stop" /\ acts[i].pc = "resume"
    /\ activeMeetingTabs' =
          [t \in AllTabs |->
              IF IsSome(activeMeetingTabs[t])
              THEN Some([Get(activeMeetingTabs[t]) EXCEPT !.recording = FALSE])
              ELSE None]
    /\ acts' = RemoveAt(acts, i)
    /\ UNCHANGED <<input, output, keys, autoTranscribe, page, cs, inbox, runs>>

\* stopRecordingInTab after its await (index.ts 128)
BgStopResume(i) ==
    /\ i \in 1..Len(acts)
    /\ acts[i].kind = "stop" /\ acts[i].pc = "resume"
    /\ activeMeetingTabs' =
          [activeMeetingTabs EXCEPT ![acts[i].tab] =
              Some([Session(acts[i].tab) EXCEPT !.recording = FALSE])]
    /\ acts' = RemoveAt(acts, i)
    /\ UNCHANGED <<input, output, keys, autoTranscribe, page, cs, inbox, runs>>

\* ------------------------------------------------- the content script
\* The first message of the background still on its way to tab t's content
\* script (messages to one tab arrive in the order sent).
NextToContent(t) ==
    LET waiting == { i \in 1..Len(acts) : acts[i].tab = t /\ acts[i].pc = "toContent" }
    IN  IF waiting = {} THEN 0 ELSE Min(waiting)

SetPc(i, pc) == [acts EXCEPT ![i].pc = pc]

\* startRecording() clearing the speaker history as it clears the chunks
CsHandleStart_ClearsSpeakers(t) ==
    /\ NextToContent(t) # 0
    /\ acts[NextToContent(t)].kind = "start"
    /\ cs[t].gumPending < MaxGum
    /\ cs' = [cs EXCEPT ![t].isRecording = TRUE,
                        ![t].statusUI = <<"Recording started">>,
                        ![t].gumPending = @ + 1,
                        ![t].currentSpeaker = <<>>,
                        ![t].speakerHistory = <<>>]
    /\ acts' = SetPc(NextToContent(t), "resume")
    /\ UNCHANGED <<input, output, keys, autoTranscribe, page, activeMeetingTabs, inbox, runs>>

\* case START_RECORDING (part_000 27-29): startRecording() up to its await
\* of getUserMedia (lines 239-247), then the reply.
CsHandleStart(t) ==
    /\ NextToContent(t) # 0
    /\ acts[NextToContent(t)].kind = "start"
    /\ cs[t].gumPending < MaxGum
    /\ cs' = [cs EXCEPT ![t].isRecording = TRUE,
                        ![t].statusUI = <<"Recording started">>,
                        ![t].gumPending = @ + 1]
    /\ acts' = SetPc(NextToContent(t), "resume")
    /\ UNCHANGED <<input, output, keys, autoTranscribe, page, activeMeetingTabs, inbox, runs>>

\* startRecording() after getUserMedia resolved (part_000 247-265).  With
\* recorderOk FALSE, new MediaRecorder or start() throws and the catch
\* block (lines 267-271) runs with the stream already assigned.
\* A stream that mediaStream referenced and whose tracks still run is
\* referenced by nothing afterwards.
CsGumResolve(t, recorderOk) ==
    /\ cs[t].gumPending > 0
    /\ cs[t].mediaStream = "live" => cs[t].leaked < MaxLeak
    /\ cs' = [cs EXCEPT
                ![t].gumPending = @ - 1,
                ![t].leaked = IF cs[t].mediaStream = "live" THEN @ + 1 ELSE @,
                ![t].mediaStream = "live",
                ![t].mediaRecorder = IF recorderOk THEN "recording" ELSE @,
                ![t].audioChunks = IF recorderOk THEN 0 ELSE @,
                ![t].isRecording = IF recorderOk THEN @ ELSE FALSE,
                ![t].statusUI = IF recorderOk THEN @
                                ELSE <<"Recording error: ", "NotSupportedError">>]
    /\ UNCHANGED <<input, output, keys, autoTranscribe, page, activeMeetingTabs, inbox, acts, runs>>

\* startRecording() after getUserMedia rejected (part_000 267-271)
CsGumReject(t) ==
    /\ cs[t].gumPending > 0
    /\ cs' = [cs EXCEPT ![t].gumPending = @ - 1,
                        ![t].isRecording = FALSE,
                        ![t].statusUI = <<"Recording error: ", "Permission denied">>]
    /\ UNCHANGED <<input, output, keys, autoTranscribe, page, activeMeetingTabs, inbox, acts, runs>>

\* stopRecording() without the test of the recorder in lines 277-280
CsHandleStop_AlwaysStops(t) ==
    /\ NextToContent(t) # 0
    /\ acts[NextToContent(t)].kind = "stop"
    /\ acts' = SetPc(NextToContent(t), "stopping")
    /\ cs' = [cs EXCEPT ![t].isRecording = FALSE,
                        ![t].statusUI = <<"Processing recording...">>,
                        ![t].mediaRecorder = "inactive"]
    /\ UNCHANGED <<input, output, keys, autoTranscribe, page, activeMeetingTabs, inbox, runs>>

\* stopRecording() testing only that a recorder exists, not its state
CsHandleStop_NullCheckOnly(t) ==
    /\ NextToContent(t) # 0
    /\ acts[NextToContent(t)].kind = "stop"
    /\ IF cs[t].mediaRecorder = "null"
       THEN /\ acts' = RemoveAt(acts, NextToContent(t))
            /\ cs' = cs
       ELSE /\ acts' = SetPc(NextToContent(t), "stopping")
            /\ cs' = [cs EXCEPT ![t].isRecording = FALSE,
                                ![t].statusUI = <<"Processing recording...">>,
                                ![t].mediaRecorder = "inactive"]
    /\ UNCHANGED <<input, output, keys, autoTranscribe, page, activeMeetingTabs, inbox, runs>>

\* case STOP_RECORDING (part_000 31-32): stopRecording() up to
\* mediaRecorder.stop() (lines 275-310).  Without an active recorder the
\* promise is rejected, the message's reply is an error and
\* stopRecordingInTab throws at its await.
CsHandleStop(t) ==
    /\ NextToContent(t) # 0
    /\ acts[NextToContent(t)].kind = "stop"
    /\ IF cs[t].mediaRecorder # "recording"
       THEN /\ acts' = RemoveAt(acts, NextToContent(t))
            /\ cs' = cs
       ELSE /\ acts' = SetPc(NextToContent(t), "stopping")
            /\ cs' = [cs EXCEPT ![t].isRecording = FALSE,
                                ![t].statusUI = <<"Processing recording...">>,
                                ![t].mediaRecorder = "inactive"]
    /\ UNCHANGED <<input, output, keys, autoTranscribe, page, activeMeetingTabs, inbox, runs>>

\* the stop event resolving only when a chunk was captured
CsOnStop_NeedsData(i, hasData) ==
    /\ i \in 1..Len(acts)
    /\ acts[i].kind = "stop" /\ acts[i].pc = "stopping"
    /\ Len(inbox) < MaxInbox
    /\ LET t == acts[i].tab
           chunks == IF hasData THEN cs[t].audioChunks + 1 ELSE cs[t].audioChunks
       IN  /\ cs' = [cs EXCEPT ![t].audioChunks = chunks,
                               ![t].mediaStream = IF @ = "live" THEN "stopped" ELSE @]
           /\ inbox' = IF chunks > 0
                       THEN Append(inbox, Msg("processRecording", t, 0, chunks, TRUE))
                       ELSE inbox
    /\ acts' = SetPc(i, "resume")
    /\ UNCHANGED <<input, output, keys, autoTranscribe, page, activeMeetingTabs, runs>>

\* The stopped recorder's dataavailable event (part_000 254-258; hasData:
\* event.data.size > 0) and its stop event (lines 289-306), then the
\* then-handler of case STOP_RECORDING (lines 32-46): processRecording is
\* sent and the stop message is answered.
CsOnStop(i, hasData) ==
    /\ i \in 1..Len(acts)
    /\ acts[i].kind = "stop" /\ acts[i].pc = "stopping"
    /\ Len(inbox) < MaxInbox
    /\ LET t == acts[i].tab
           chunks == IF hasData THEN cs[t].audioChunks + 1 ELSE cs[t].audioChunks
       IN  /\ cs' = [cs EXCEPT ![t].audioChunks = chunks,
                               ![t].mediaStream = IF @ = "live" THEN "stopped" ELSE @]
           /\ inbox' = Append(inbox, Msg("processRecording", t, 0, chunks, TRUE))
    /\ acts' = SetPc(i, "resume")
    /\ UNCHANGED <<input, output, keys, autoTranscribe, page, activeMeetingTabs, runs>>

\* -------------------------------------------------- the speaker detection
\* The most entries of the speaker history.
MaxHistory == 3

\* String.prototype.trim(): the text without leading and trailing white space.
RECURSIVE TrimStart(_)
TrimStart(s) == IF s # <<>> /\ Head(s) = "ws" THEN TrimStart(Tail(s)) ELSE s

RECURSIVE TrimEnd(_)
TrimEnd(s) ==
    IF s # <<>> /\ s[Len(s)] = "ws" THEN TrimEnd(SubSeq(s, 1, Len(s) - 1)) ELSE s

Trim(s) == TrimEnd(TrimStart(s))

UnknownSpeaker == <<"Unknown Speaker">>

\* An active speaker element: nameElement is the element one of the name
\* selectors finds in it, if any, as its textContent.
SpeakerElement(nameElement) == [nameElement |-> nameElement]

\* getZoomSpeakerName (part_000 405-418)
getZoomSpeakerName(element) ==
    IF IsSome(element.nameElement)
    THEN IF Trim(Get(element.nameElement)) # <<>>
         THEN Trim(Get(element.nameElement)) ELSE UnknownSpeaker
    ELSE UnknownSpeaker

\* getGoogleMeetSpeakerName (part_000 443-456)
getGoogleMeetSpeakerName(element) ==
    IF IsSome(element.nameElement)
    THEN IF Trim(Get(element.nameElement)) # <<>>
         THEN Trim(Get(element.nameElement)) ELSE UnknownSpeaker
    ELSE UnknownSpeaker

\* updateCurrentSpeaker recording every resolved name
updateCurrentSpeaker_AlwaysAppends(c, speakerName, date) ==
    IF speakerName # <<>>
    THEN [c EXCEPT !.currentSpeaker = Some(speakerName),
                   !.speakerUI = <<"Current speaker: ">> \o speakerName,
                   !.speakerHistory = Append(@, [speaker |-> speakerName, time |-> date])]
    ELSE c

\* updateCurrentSpeaker noting the unknown speaker without a history entry
updateCurrentSpeaker_UnknownNotLogged(c, speakerName, date) ==
    IF speakerName # <<>> /\ Some(speakerName) # c.currentSpeaker
    THEN [c EXCEPT !.currentSpeaker = Some(speakerName),
                   !.speakerUI = <<"Current speaker: ">> \o speakerName,
                   !.speakerHistory =
                       IF speakerName = UnknownSpeaker THEN @
                       ELSE Append(@, [speaker |-> speakerName, time |-> date])]
    ELSE c

\* updateCurrentSpeaker (part_000 459-475) on the content script's state c;
\* date is the value of new Date().
updateCurrentSpeaker(c, speakerName, date) ==
    IF speakerName # <<>> /\ Some(speakerName) # c.currentSpeaker
    THEN [c EXCEPT !.currentSpeaker = Some(speakerName),
                   !.speakerUI = <<"Current speaker: ">> \o speakerName,
                   !.speakerHistory = Append(@, [speaker |-> speakerName, time |-> date])]
    ELSE c

\* The name the observer of tab t's platform resolves for an element.
ResolvedName(t, element) ==
    IF page[t] = "zoom" THEN getZoomSpeakerName(element)
    ELSE getGoogleMeetSpeakerName(element)

\* The time of the last entry of a history, 0 for the empty one.
LastTime(h) == IF h = <<>> THEN 0 ELSE h[Len(h)].time

\* A DOM mutation in tab t runs the speaker observer's callback (part_000
\* 385-393, 423-431): active is the first active speaker element, None
\* when the page shows none; date is the value of new Date().
SpeakerMutation(t, active, date) ==
    /\ page[t] \in {"zoom", "google-meet"}
    /\ Len(cs[t].speakerHistory) < MaxHistory
    /\ date \in 0..MaxClock /\ date >= LastTime(cs[t].speakerHistory)
    /\ cs' = IF IsSome(active)
             THEN [cs EXCEPT ![t] = updateCurrentSpeaker(cs[t], ResolvedName(t, Get(active)), date)]
             ELSE cs
    /\ UNCHANGED <<input, output, keys, autoTranscribe, page, activeMeetingTabs, inbox, acts, runs>>

\* ------------------------------------------------------ processRecording
GenReply(ok, st, wf, text) == HttpReply(ok, st, GenBody(wf, text))

SummaryReplies ==
    { GenReply(TRUE, "OK", TRUE, <<"narrative">>),
      GenReply(TRUE, "OK", FALSE, <<>>),
      GenReply(FALSE, "Too Many Requests", FALSE, <<>>) }

ActionTexts ==
    { <<"[", "{", "a", "}", "]">>,
      <<"w", "fence", "json", "ws", "[", "]", "ws", "fence">>,
      <<"w">> }

ActionReplies ==
    { GenReply(TRUE, "OK", TRUE, text) : text \in ActionTexts }
        \cup { GenReply(TRUE, "OK", FALSE, <<>>),
               GenReply(FALSE, "Too Many Requests", FALSE, <<>>) }

\* the message of the error a rejected tabs.sendMessage carries
NoReceiver == <<"Could not establish connection. Receiving end does not exist.">>
\* the message of the TypeError of reading candidates[0].content of a reply without it
NoCandidate == <<"Cannot read properties of undefined">>

\* A status message is shown when the tab has a content script.
Shown(c, t, text) == IF Alive(t) THEN WithStatus(c, t, text) ELSE c

\* the catch block sending a status without the error's message
Caught_NoDescription(r, err) == [r EXCEPT !.pc = "catch", !.error = <<>>]

\* The catch block of processRecording up to its await (index.ts 223-230):
\* the failure status is sent.
Caught(r, err) == [r EXCEPT !.pc = "catch", !.error = err]

AtPc(i, pc) == i \in 1..Len(runs) /\ runs[i].pc = pc

\* After the first status message is acknowledged: the keys are read and
\* checked and the second status message is sent (index.ts 162-188).
RunStatus1(i) ==
    /\ AtPc(i, "status1")
    /\ LET r == runs[i] IN
        IF ~Alive(r.tab)
        THEN /\ runs' = [runs EXCEPT ![i] = Caught(r, NoReceiver)]
             /\ cs' = cs
        ELSE /\ cs' = WithStatus(cs, r.tab, <<"Processing recording...">>)
             /\ runs' = [runs EXCEPT ![i] =
                  IF ~keys.assemblyAiKey
                  THEN Caught(r, <<"AssemblyAI API key not set. Please configure in options.">>)
                  ELSE IF ~keys.geminiKey
                  THEN Caught(r, <<"Gemini API key not set. Please configure in options.">>)
                  ELSE [r EXCEPT !.pc = "status2"]]
    /\ UNCHANGED <<input, output, keys, autoTranscribe, page, activeMeetingTabs, inbox, acts>>

\* After the second status message: transcribeAudio starts and uploads
\* (index.ts 185-190, assemblyAIService.ts 24-38).
RunStatus2(i) ==
    /\ AtPc(i, "status2")
    /\ LET r == runs[i] IN
        IF ~Alive(r.tab)
        THEN /\ runs' = [runs EXCEPT ![i] = Caught(r, NoReceiver)]
             /\ cs' = cs
        ELSE /\ cs' = WithStatus(cs, r.tab, <<"Uploading audio to AssemblyAI...">>)
             /\ runs' = [runs EXCEPT ![i].pc = "upload"]
    /\ UNCHANGED <<input, output, keys, autoTranscribe, page, activeMeetingTabs, inbox, acts>>

\* The upload's reply (assemblyAIService.ts 40-61)
RunUpload(i, reply) ==
    /\ AtPc(i, "upload")
    /\ LET r == runs[i] IN
        IF ~reply.ok
        THEN /\ runs' = [runs EXCEPT ![i] =
                  Caught(r, <<"Failed to upload audio: ", reply.statusText>>)]
             /\ cs' = cs
        ELSE /\ cs' = Shown(cs, r.tab, <<"Requesting transcription...">>)
             /\ runs' = [runs EXCEPT ![i].pc = "submit"]
    /\ UNCHANGED <<input, output, keys, autoTranscribe, page, activeMeetingTabs, inbox, acts>>

\* a refused submit going on to the summary request instead of throwing
RunSubmit_SummarizesAnyway(i, reply) ==
    /\ AtPc(i, "submit")
    /\ runs' = [runs EXCEPT ![i].pc = IF reply.ok THEN "poll" ELSE "genSummary"]
    /\ cs' = Shown(cs, runs[i].tab, <<"Waiting for transcription to complete...">>)
    /\ UNCHANGED <<input, output, keys, autoTranscribe, page, activeMeetingTabs, inbox, acts>>

\* The submit's reply (assemblyAIService.ts 63-77)
RunSubmit(i, reply) ==
    /\ AtPc(i, "submit")
    /\ LET r == runs[i] IN
        IF ~reply.ok
        THEN /\ runs' = [runs EXCEPT ![i] =
                  Caught(r, <<"Failed to request transcription: ", reply.statusText>>)]
             /\ cs' = cs
        ELSE /\ cs' = Shown(cs, r.tab, <<"Waiting for transcription to complete...">>)
             /\ runs' = [runs EXCEPT ![i].pc = "poll"]
    /\ UNCHANGED <<input, output, keys, autoTranscribe, page, activeMeetingTabs, inbox, acts>>

\* the poll loop polling again after a poll request that failed
RunPoll_RetriesFailedPoll(i, reply) ==
    /\ AtPc(i, "poll")
    /\ LET r == runs[i]
           pollingResult == reply.body
       IN
        IF reply.ok /\ pollingResult.status = "completed"
        THEN /\ runs' = [runs EXCEPT ![i] =
                  [r EXCEPT !.pc = "status3",
                            !.transcript = Some(FormatTranscript(pollingResult))]]
             /\ cs' = Shown(cs, r.tab, <<"Transcription completed!">>)
        ELSE IF reply.ok /\ pollingResult.status = "error"
        THEN /\ runs' = [runs EXCEPT ![i] =
                  Caught(r, <<"Transcription error: ">> \o
                     (IF IsSome(pollingResult.error) THEN pollingResult.error
                      ELSE <<"undefined">>))]
             /\ cs' = cs
        ELSE /\ runs' = runs
             /\ cs' = Shown(cs, r.tab, <<"Waiting for transcription to complete...">>)
    /\ UNCHANGED <<input, output, keys, autoTranscribe, page, activeMeetingTabs, inbox, acts>>

\* the poll loop giving up on the first status that is not 'completed'
RunPoll_GivesUp(i, reply) ==
    /\ AtPc(i, "poll")
    /\ LET r == runs[i]
           pollingResult == reply.body
       IN
        IF reply.ok /\ pollingResult.status = "completed"
        THEN /\ runs' = [runs EXCEPT ![i] =
                  [r EXCEPT !.pc = "status3",
                            !.transcript = Some(FormatTranscript(pollingResult))]]
             /\ cs' = Shown(cs, r.tab, <<"Transcription completed!">>)
        ELSE /\ runs' = [runs EXCEPT ![i] =
                  Caught(r, <<"Transcription error: ", pollingResult.status>>)]
             /\ cs' = cs
    /\ UNCHANGED <<input, output, keys, autoTranscribe, page, activeMeetingTabs, inbox, acts>>

\* One iteration of the poll loop: the 3 s wait, the poll and its reply
\* (assemblyAIService.ts 73-100); on 'completed' the transcript is
\* formatted (lines 103-121) and processRecording sends the third status
\* message (index.ts 198-201).
RunPoll(i, reply) ==
    /\ AtPc(i, "poll")
    /\ LET r == runs[i]
           pollingResult == reply.body
       IN
        IF ~reply.ok
        THEN /\ runs' = [runs EXCEPT ![i] =
                  Caught(r, <<"Failed to poll transcription: ", reply.statusText>>)]
             /\ cs' = cs
        ELSE IF pollingResult.status = "completed"
        THEN /\ runs' = [runs EXCEPT ![i] =
                  [r EXCEPT !.pc = "status3",
                            !.transcript = Some(FormatTranscript(pollingResult))]]
             /\ cs' = Shown(cs, r.tab, <<"Transcription completed!">>)
        ELSE IF pollingResult.status = "error"
        THEN /\ runs' = [runs EXCEPT ![i] =
                  Caught(r, <<"Transcription error: ">> \o
                     (IF IsSome(pollingResult.error) THEN pollingResult.error
                      ELSE <<"undefined">>))]
             /\ cs' = cs
        ELSE /\ runs' = runs
             /\ cs' = Shown(cs, r.tab, <<"Waiting for transcription to complete...">>)
    /\ UNCHANGED <<input, output, keys, autoTranscribe, page, activeMeetingTabs, inbox, acts>>

\* After the third status message: generateSummary starts and requests the
\* narrative summary (index.ts 198-203, geminiService.ts 36-101).
RunStatus3(i) ==
    /\ AtPc(i, "status3")
    /\ LET r == runs[i] IN
        IF ~Alive(r.tab)
        THEN /\ runs' = [runs EXCEPT ![i] = Caught(r, NoReceiver)]
             /\ cs' = cs
        ELSE /\ cs' = WithStatus(cs, r.tab, <<"Generating summary with Gemini...">>)
             /\ runs' = [runs EXCEPT ![i].pc = "genSummary"]
    /\ UNCHANGED <<input, output, keys, autoTranscribe, page, activeMeetingTabs, inbox, acts>>

\* The summary request's reply (geminiService.ts 103-123): the action-item
\* request follows.
RunGenSummary(i, reply) ==
    /\ AtPc(i, "genSummary")
    /\ LET r == runs[i] IN
        runs' = [runs EXCEPT ![i] =
            IF ~reply.ok
            THEN Caught(r, <<"Failed to generate summary: ", reply.statusText>>)
            ELSE IF ~reply.body.wellFormed
            THEN Caught(r, NoCandidate)
            ELSE [r EXCEPT !.pc = "genActions",
                           !.summary = Some([summary |-> reply.body.text,
                                             actionItems |-> [isArray |-> TRUE, items |-> <<>>]])]]
    /\ UNCHANGED <<input, output, keys, autoTranscribe, page, cs, activeMeetingTabs, inbox, acts>>

\* lines 211-214 without the assignment of line 213
StoreResults_TranscriptOnly(tabs, tabId, transcript, summary) ==
    IF IsSome(tabs[tabId])
    THEN [tabs EXCEPT ![tabId] =
            Some([Get(tabs[tabId]) EXCEPT !.transcript = Some(transcript)])]
    ELSE tabs

\* The results processRecording stores (index.ts 211-214)
StoreResults(tabs, tabId, transcript, summary) ==
    IF IsSome(tabs[tabId])
    THEN [tabs EXCEPT ![tabId] =
            Some([Get(tabs[tabId]) EXCEPT !.transcript = Some(transcript),
                                          !.summary = Some(summary)])]
    ELSE tabs

\* The action-item request's reply (geminiService.ts 125-168), then
\* processRecording stores the results and sends the last status message
\* (index.ts 205-220).
RunGenActions(i, reply) ==
    /\ AtPc(i, "genActions")
    /\ LET r == runs[i] IN
        IF ~reply.ok
        THEN /\ runs' = [runs EXCEPT ![i] =
                  Caught(r, <<"Failed to extract action items: ", reply.statusText>>)]
             /\ activeMeetingTabs' = activeMeetingTabs
        ELSE IF ~reply.body.wellFormed
        THEN /\ runs' = [runs EXCEPT ![i] = Caught(r, NoCandidate)]
             /\ activeMeetingTabs' = activeMeetingTabs
        ELSE LET summary == [Get(r.summary) EXCEPT
                                !.actionItems = ExtractActionItems(reply.body.text)]
             IN  /\ runs' = [runs EXCEPT ![i] =
                       [r EXCEPT !.pc = "status4", !.summary = Some(summary),
                                 !.stored = IsSome(activeMeetingTabs[r.tab])]]
                 /\ activeMeetingTabs' =
                       StoreResults(activeMeetingTabs, r.tab, Get(r.transcript), summary)
    /\ UNCHANGED <<input, output, keys, autoTranscribe, page, cs, inbox, acts>>

\* After the last status message: processRecording returns the results
\* (index.ts 217-222).
RunStatus4(i) ==
    /\ AtPc(i, "status4")
    /\ LET r == runs[i] IN
        IF ~Alive(r.tab)
        THEN /\ runs' = [runs EXCEPT ![i] = Caught(r, NoReceiver)]
             /\ cs' = cs
        ELSE /\ cs' = WithStatus(cs, r.tab, <<"Processing complete!">>)
             /\ runs' = [runs EXCEPT ![i].pc = "resolved"]
    /\ UNCHANGED <<input, output, keys, autoTranscribe, page, activeMeetingTabs, inbox, acts>>

\* the catch block starting the pipeline again instead of rethrowing
RunCatch_Retries(i) ==
    /\ AtPc(i, "catch")
    /\ runs' = [runs EXCEPT ![i].pc = "status1"]
    /\ UNCHANGED <<input, output, keys, autoTranscribe, page, cs, activeMeetingTabs, inbox, acts>>

\* After the failure status message: processRecording rethrows (index.ts
\* 227-232); when that message is rejected its error is thrown instead.
RunCatch(i) ==
    /\ AtPc(i, "catch")
    /\ LET r == runs[i] IN
        IF ~Alive(r.tab)
        THEN /\ runs' = [runs EXCEPT ![i] = [r EXCEPT !.pc = "rejected", !.error = NoReceiver]]
             /\ cs' = cs
        ELSE /\ cs' = WithStatus(cs, r.tab, <<"Processing failed: ">> \o r.error)
             /\ runs' = [runs EXCEPT ![i].pc = "rejected"]
    /\ UNCHANGED <<input, output, keys, autoTranscribe, page, activeMeetingTabs, inbox, acts>>

\* The value processRecording resolves with (index.ts 206-209, 222)
Results(r) == [transcript |-> Get(r.transcript), summary |-> Get(r.summary)]

\* result && result.status === 'success'  (part_000 38)
IsSuccess(result) == "status" \in DOMAIN result /\ result.status = "success"

\* The settled activation's outcome reaches its sender.  For the content
\* script this is the then-handler of its processRecording message
\* (part_000 37-44); a rejection has no handler there.
RunSettled(i) ==
    /\ i \in 1..Len(runs)
    /\ runs[i].pc \in {"resolved", "rejected"}
    /\ LET r == runs[i] IN
        IF r.reply /\ r.pc = "resolved"
        THEN IF IsSuccess(Results(r))
             THEN /\ Len(inbox) < MaxInbox
                  /\ inbox' = Append(inbox, Msg("saveTranscript", r.tab, 0, 0, FALSE))
                  /\ cs' = WithStatus(cs, r.tab, <<"Transcript ready!">>)
             ELSE /\ inbox' = inbox
                  /\ cs' = WithStatus(cs, r.tab, <<"Error: ", "Unknown error">>)
        ELSE /\ inbox' = inbox
             /\ cs' = cs
    /\ runs' = RemoveAt(runs, i)
    /\ UNCHANGED <<input, output, keys, autoTranscribe, page, activeMeetingTabs, acts>>

\* ----------------------------------------------------- the specifications
\* The replies the services give in SpecPipeline: every status and failure
\* of each request, with one completed transcript and one parsable and one
\* malformed action-item reply.
MeetingPollReplies ==
    { r \in PollReplies : r.body.status = "completed" => IsSome(r.body.chapters) }

MeetingActionReplies ==
    { r \in ActionReplies : r.body.text \in {<<>>, <<"[", "{", "a", "}", "]">>} }

UploadRefused == HttpReply(FALSE, "Unauthorized", None)

\* Commands and sessions: every sender of start and stop, any content of
\* the settings store, page loads and unloads; the speech service refuses
\* every upload, so each processRecording activation fails.
Next ==
    \/ \E a \in BOOLEAN, g \in BOOLEAN, auto \in BOOLEAN : StorageChanged(a, g, auto)
    \/ \E t \in MainTabs : PageLoad(t, "zoom")
    \/ \E t \in MainTabs : PageUnload(t)
    \/ \E t \in MainTabs : ClickRecord(t)
    \/ \E t \in MainTabs, action \in {"startRecording", "stopRecording"} : PopupCommand(t, action)
    \/ \E t \in MainTabs, action \in {"startRecording", "stopRecording"} : DirectMessage(t, action, 0)
    \/ BgDrop
    \/ BgMeetingDetected
    \/ BgStartRecording
    \/ BgStopRecording
    \/ BgProcessRecording
    \/ \E i \in 1..MaxActs : BgDetectContinue(i)
    \/ \E i \in 1..MaxActs : BgStopResume(i)
    \/ \E i \in 1..MaxActs, date \in 0..MaxClock : BgStartResume(i, date)
    \/ \E t \in MainTabs : CsHandleStart(t)
    \/ \E t \in MainTabs : CsHandleStop(t)
    \/ \E t \in MainTabs : CsGumResolve(t, TRUE)
    \/ \E i \in 1..MaxActs, hasData \in BOOLEAN : CsOnStop(i, hasData)
    \/ \E i \in 1..MaxRuns : RunStatus1(i)
    \/ \E i \in 1..MaxRuns : RunStatus2(i)
    \/ \E i \in 1..MaxRuns : RunUpload(i, UploadRefused)
    \/ \E i \in 1..MaxRuns : RunCatch(i)
    \/ \E i \in 1..MaxRuns : RunSettled(i)

Spec == Init /\ [][Next]_vars

\* The pipeline: the settings are saved on the options page, the in-page
\* button starts and stops the recording, the capture succeeds, and the
\* services answer every request in every way.
NextPipeline ==
    \/ SaveSettings(FALSE)
    \/ \E t \in MainTabs : PageLoad(t, "google-meet")
    \/ \E t \in MainTabs : PageUnload(t)
    \/ \E t \in MainTabs : ClickRecord(t)
    \/ BgMeetingDetected
    \/ BgStartRecording
    \/ BgStopRecording
    \/ BgProcessRecording
    \/ \E i \in 1..MaxActs : BgDetectContinue(i)
    \/ \E i \in 1..MaxActs : BgStopResume(i)
    \/ \E i \in 1..MaxActs, date \in 0..MaxClock : BgStartResume(i, date)
    \/ \E t \in MainTabs : CsHandleStart(t)
    \/ \E t \in MainTabs : CsHandleStop(t)
    \/ \E t \in MainTabs : CsGumResolve(t, TRUE)
    \/ \E i \in 1..MaxActs, hasData \in BOOLEAN : CsOnStop(i, hasData)
    \/ \E i \in 1..MaxRuns : RunStatus1(i)
    \/ \E i \in 1..MaxRuns : RunStatus2(i)
    \/ \E i \in 1..MaxRuns, reply \in PlainReplies : RunUpload(i, reply)
    \/ \E i \in 1..MaxRuns, reply \in PlainReplies : RunSubmit(i, reply)
    \/ \E i \in 1..MaxRuns, reply \in MeetingPollReplies : RunPoll(i, reply)
    \/ \E i \in 1..MaxRuns : RunStatus3(i)
    \/ \E i \in 1..MaxRuns, reply \in SummaryReplies : RunGenSummary(i, reply)
    \/ \E i \in 1..MaxRuns, reply \in MeetingActionReplies : RunGenActions(i, reply)
    \/ \E i \in 1..MaxRuns : RunStatus4(i)
    \/ \E i \in 1..MaxRuns : RunCatch(i)
    \/ \E i \in 1..MaxRuns : RunSettled(i)

SpecPipeline == Init /\ [][NextPipeline]_vars

\* ------------------------------------------------------------- the claims
\* The listener (index.ts 30-61) takes the first message, one of the given
\* action sent from a tab, in this step.
Handled(action) ==
    /\ inbox # <<>>
    /\ Head(inbox).senderTab # 0
    /\ Head(inbox).action = action
    /\ inbox' = Tail(inbox)

\* An activation of processRecording for tab t is in flight: the session
\* is Processing.
Processing(t) == \E i \in 1..Len(runs) : runs[i].tab = t

\* C1: a start request handled while either API key is unset fails: no
\* start activation begins, so no capture starts and the session stays Idle.
C1_StartNeedsCredentials ==
    [][ (Handled("startRecording") /\ ~KeysValid) => acts' = acts ]_vars

\* C2: a start request handled while the tab's session is Recording or
\* Processing is not accepted: no start activation begins, so no second
\* capture starts and recording and startTime stay as they are.
C2_StartOnlyWhenIdle ==
    [][ Handled("startRecording") =>
          LET t == TargetTab(Head(inbox)) IN
            (HasSession(t) /\ (Session(t).recording \/ Processing(t)))
                => acts' = acts ]_vars

\* C3: a stop request handled for a tab whose session is absent or not
\* Recording does nothing: no stop is sent to the content script, no
\* processRecording activation begins, and the sessions and the content
\* scripts are unchanged.
C3_StopRejectedUnlessRecording ==
    [][ Handled("stopRecording") =>
          LET t == TargetTab(Head(inbox)) IN
            ~(HasSession(t) /\ Session(t).recording)
                => /\ acts' = acts
                   /\ runs' = runs
                   /\ activeMeetingTabs' = activeMeetingTabs
                   /\ cs' = cs ]_vars

\* A stop request from the page of a session that recorded before and was
\* stopped is about to be handled.
C3_Witness ==
    /\ inbox # <<>>
    /\ Head(inbox).action = "stopRecording"
    /\ Head(inbox).senderTab # 0
    /\ Len(acts) < MaxActs
    /\ Alive(TargetTab(Head(inbox)))
    /\ HasSession(TargetTab(Head(inbox)))
    /\ ~Session(TargetTab(Head(inbox))).recording
    /\ IsSome(Session(TargetTab(Head(inbox))).startTime)

\* Activation i of processRecording takes a turn in this step and goes from
\* one place to another.
Moves(i, from, to) ==
    /\ AtPc(i, from)
    /\ Len(runs') = Len(runs)
    /\ runs'[i].pc = to

\* Activation i fails in this step: its catch block is entered.
Fails(i) ==
    /\ i \in 1..Len(runs)
    /\ runs[i].pc # "catch"
    /\ Len(runs') = Len(runs)
    /\ runs'[i].pc = "catch"

\* The recording flag and start time of every session are the same after
\* the step.
SameRecordingState ==
    \A t \in AllTabs :
        /\ HasSession(t) <=> IsSome(activeMeetingTabs'[t])
        /\ HasSession(t) =>
              /\ Get(activeMeetingTabs'[t]).recording = Session(t).recording
              /\ Get(activeMeetingTabs'[t]).startTime = Session(t).startTime

\* C4: when the run that follows a start and a stop succeeds, the step that
\* stores its results leaves the tab's session with exactly the transcript
\* and the summary this run produced (two utterances and one action item:
\* a transcript of length 2 and an action-item list of length 1); the stop
\* that preceded the run left the session not recording, and no turn of a
\* run changes that.
C4_SuccessStoresRunOutput ==
    [][ /\ \A i \in 1..Len(runs) :
              Moves(i, "genActions", "status4") =>
                LET t == runs[i].tab
                    after == Get(activeMeetingTabs'[t])
                IN  /\ HasSession(t) /\ IsSome(activeMeetingTabs'[t])
                    /\ after.transcript = runs'[i].transcript
                    /\ after.summary = runs'[i].summary
                    /\ Len(Get(after.transcript).transcript) = 2
                    /\ Len(Get(after.summary).actionItems.items) = 1
        /\ \A i \in 1..Len(acts) :
              (acts[i].kind = "stop" /\ acts' = RemoveAt(acts, i) /\ acts[i].pc = "resume")
                  => ~Get(activeMeetingTabs'[acts[i].tab]).recording
        /\ (\E i \in 1..Len(runs) : Len(runs') = Len(runs) /\ runs'[i].pc # runs[i].pc)
              => SameRecordingState ]_vars

\* The run of tab 1 succeeded and its content script was told so; the
\* session is not recording and holds a transcript of two entries and one
\* action item parsed from the reply.
C4_Witness ==
    /\ \E i \in 1..Len(runs) : runs[i].tab = 1 /\ runs[i].pc = "resolved" /\ runs[i].stored
    /\ HasSession(1)
    /\ ~Session(1).recording
    /\ IsSome(Session(1).startTime)
    /\ IsSome(Session(1).transcript) /\ IsSome(Session(1).summary)
    /\ Len(Get(Session(1).transcript).transcript) = 2
    /\ Get(Session(1).summary).actionItems.items = <<ItemOf("a")>>

\* C5: when a run succeeded and the content script that asked for it
\* receives the result, it hands the results on (showResults sends
\* saveTranscript) and its last status reports success, not an error.
C5_SuccessIsShown ==
    [][ \A i \in 1..Len(runs) :
          (runs[i].pc = "resolved" /\ runs[i].reply /\ runs' = RemoveAt(runs, i))
              => /\ inbox' = Append(inbox, Msg("saveTranscript", runs[i].tab, 0, 0, FALSE))
                 /\ ~Contains(cs'[runs[i].tab].statusUI, "Error: ") ]_vars

\* C6: every failure of a pipeline stage enters the catch block with a
\* description of the failure, the status sent from there is
\* "Processing failed: " followed by that description, and neither step
\* touches a session, which stays as the stop left it; a poll reply
\* {status: error, error: E} gives a description that contains E.
C6_FailureIsReported ==
    [][ \A i \in 1..Len(runs) :
          /\ Fails(i) =>
                /\ runs'[i].error # <<>>
                /\ activeMeetingTabs' = activeMeetingTabs
          /\ \A reply \in PollReplies :
                (reply.ok /\ reply.body.status = "error" /\ RunPoll(i, reply))
                    => Fails(i) /\ Contains(runs'[i].error, Get(reply.body.error))
          /\ (Moves(i, "catch", "rejected") /\ Alive(runs[i].tab)) =>
                /\ cs'[runs[i].tab].statusUI = <<"Processing failed: ">> \o runs[i].error
                /\ activeMeetingTabs' = activeMeetingTabs ]_vars

\* The speech service answered a poll with the error "decode failure";
\* the page shows the failure with that text and the session is not
\* recording.
C6_Witness ==
    /\ cs[1].statusUI = <<"Processing failed: ", "Transcription error: ", "decode failure">>
    /\ \E i \in 1..Len(runs) : runs[i].tab = 1 /\ runs[i].pc = "rejected"
    /\ HasSession(1)
    /\ ~Session(1).recording

\* C7: a run that ends in failure, a failed status message included, has
\* not stored a transcript or a summary; and a session has a transcript
\* exactly when it has a summary.
C7_FailedRunStoresNothing ==
    /\ \A i \in 1..Len(runs) : runs[i].pc \in {"catch", "rejected"} => ~runs[i].stored
    /\ \A t \in AllTabs :
          HasSession(t) => (IsSome(Session(t).transcript) <=> IsSome(Session(t).summary))

\* C8: a meetingDetected message for a tab that has a session leaves that
\* session as it is.
C8_DetectionKeepsSession ==
    [][ Handled("meetingDetected") =>
          LET t == Head(inbox).senderTab IN
            HasSession(t) => activeMeetingTabs'[t] = activeMeetingTabs[t] ]_vars

\* C9: when a tab is closed or leaves the meeting page its session is
\* removed from the registry: no session outlives its tab.
C9_NoSessionWithoutTab ==
    [][ \A t \in AllTabs :
          (Alive(t) /\ page'[t] = "none") => activeMeetingTabs'[t] = None ]_vars

\* C10: a run during which the tab's session was created anew stores
\* nothing: its late result changes no session.
C10_LateResultIgnored ==
    [][ \A i \in 1..Len(runs) :
          (Moves(i, "genActions", "status4") /\ runs[i].recreated)
              => activeMeetingTabs' = activeMeetingTabs ]_vars

\* The recording status: the popup and the pages ask for it while
\* recordings start and stop; the speech service refuses every upload.
NextStatus ==
    \/ SaveSettings(FALSE)
    \/ \E t \in MainTabs : PageLoad(t, "zoom")
    \/ \E t \in MainTabs : PageUnload(t)
    \/ \E t \in MainTabs : ClickRecord(t)
    \/ \E t \in MainTabs : PopupCheckStatus(t)
    \/ \E t \in MainTabs : DirectMessage(t, "checkRecordingStatus", 0)
    \/ BgDrop
    \/ BgCheckRecordingStatus
    \/ BgMeetingDetected
    \/ BgStartRecording
    \/ BgStopRecording
    \/ BgProcessRecording
    \/ \E i \in 1..MaxActs : BgDetectContinue(i)
    \/ \E i \in 1..MaxActs : BgStopResume(i)
    \/ \E i \in 1..MaxActs, date \in 0..MaxClock : BgStartResume(i, date)
    \/ \E t \in MainTabs : CsHandleStart(t)
    \/ \E t \in MainTabs : CsHandleStop(t)
    \/ \E t \in MainTabs : CsGumResolve(t, TRUE)
    \/ \E i \in 1..MaxActs, hasData \in BOOLEAN : CsOnStop(i, hasData)
    \/ \E i \in 1..MaxRuns : RunStatus1(i)
    \/ \E i \in 1..MaxRuns : RunStatus2(i)
    \/ \E i \in 1..MaxRuns : RunUpload(i, UploadRefused)
    \/ \E i \in 1..MaxRuns : RunCatch(i)
    \/ \E i \in 1..MaxRuns : RunSettled(i)

SpecStatus == Init /\ [][NextStatus]_vars

\* C11: every checkRecordingStatus request is answered {recording: true}
\* when the tab it names has a session that is recording and
\* {recording: false} otherwise, and it changes no session.
C11_StatusIsAnswered ==
    [][ (inbox # <<>> /\ Head(inbox).action = "checkRecordingStatus" /\ inbox' = Tail(inbox))
          => LET t == TargetTab(Head(inbox)) IN
               /\ output' = Some([recording |-> HasSession(t) /\ Session(t).recording])
               /\ activeMeetingTabs' = activeMeetingTabs ]_vars

\* C12: when handleMeetingDetected reaches its auto-start policy for a tab
\* whose page is still open, a start is issued exactly when autoTranscribe
\* is set and both keys are present; otherwise nothing is sent to the page,
\* and in either case the step leaves the new session as it is.
C12_AutoStartPolicy ==
    [][ \A i \in 1..Len(acts) :
          LET t == acts[i].tab
              started == acts' = Append(RemoveAt(acts, i), Act("start", t, "toContent"))
              dropped == acts' = RemoveAt(acts, i)
          IN  (acts[i].kind = "detect" /\ Alive(t) /\ (started \/ dropped))
                  => /\ started <=> (autoTranscribe /\ keys.assemblyAiKey /\ keys.geminiKey)
                     /\ activeMeetingTabs' = activeMeetingTabs
                     /\ cs' = cs ]_vars

\* A meeting was detected in an open tab with autoTranscribe set and the
\* Gemini key missing, and the auto-start policy is about to run.
C12_Witness ==
    /\ autoTranscribe /\ keys.assemblyAiKey /\ ~keys.geminiKey
    /\ \E i \in 1..Len(acts) :
          /\ acts[i].kind = "detect" /\ Alive(acts[i].tab)
          /\ HasSession(acts[i].tab) /\ ~Session(acts[i].tab).recording

\* The capture: the in-page button starts and stops recordings, and
\* getUserMedia and the MediaRecorder succeed or fail; the speech service
\* refuses every upload.
NextCapture ==
    \/ SaveSettings(FALSE)
    \/ \E t \in MainTabs : PageLoad(t, "google-meet")
    \/ \E t \in MainTabs : PageUnload(t)
    \/ \E t \in MainTabs : ClickRecord(t)
    \/ BgMeetingDetected
    \/ BgStartRecording
    \/ BgStopRecording
    \/ BgProcessRecording
    \/ \E i \in 1..MaxActs : BgDetectContinue(i)
    \/ \E i \in 1..MaxActs : BgStopResume(i)
    \/ \E i \in 1..MaxActs, date \in 0..MaxClock : BgStartResume(i, date)
    \/ \E t \in MainTabs : CsHandleStart(t)
    \/ \E t \in MainTabs : CsHandleStop(t)
    \/ \E t \in MainTabs, recorderOk \in BOOLEAN : CsGumResolve(t, recorderOk)
    \/ \E t \in MainTabs : CsGumReject(t)
    \/ \E i \in 1..MaxActs, hasData \in BOOLEAN : CsOnStop(i, hasData)
    \/ \E i \in 1..MaxRuns : RunStatus1(i)
    \/ \E i \in 1..MaxRuns : RunStatus2(i)
    \/ \E i \in 1..MaxRuns : RunUpload(i, UploadRefused)
    \/ \E i \in 1..MaxRuns : RunCatch(i)
    \/ \E i \in 1..MaxRuns : RunSettled(i)

SpecCapture == Init /\ [][NextCapture]_vars

\* Nothing is under way for tab t in the background.
Quiet(t) ==
    /\ inbox = <<>>
    /\ \A i \in 1..Len(acts) : acts[i].tab # t

\* The only start on t's page failed to acquire the audio stream.
AcquireFailed(t) ==
    /\ cs[t].statusUI = <<"Recording error: ", "Permission denied">>
    /\ cs[t].mediaRecorder = "null"
    /\ cs[t].gumPending = 0

\* The stop messages of the background waiting at t's content script
StopsWaiting(as, t) ==
    Cardinality({ j \in 1..Len(as) :
                    as[j].tab = t /\ as[j].kind = "stop" /\ as[j].pc = "toContent" })

\* The recorders of t that were stopped and whose stop event is to come
StopsStopping(as, t) ==
    Cardinality({ j \in 1..Len(as) :
                    as[j].tab = t /\ as[j].kind = "stop" /\ as[j].pc = "stopping" })

\* The content script of t handles a stop message in this step.
CsStopHandled(t) ==
    /\ Alive(t) /\ page'[t] # "none"
    /\ StopsWaiting(acts', t) < StopsWaiting(acts, t)

\* A session whose page saw only a failed acquisition is not recording and
\* has no start time.
StartFailureLeavesIdle ==
    \A t \in AllTabs :
        (Alive(t) /\ HasSession(t) /\ Quiet(t) /\ AcquireFailed(t))
            => ~Session(t).recording /\ Session(t).startTime = None

\* C13: a start whose audio stream could not be acquired leaves the session
\* not recording and without start time, and a stop that finds no active
\* capture leaves the session as it was.
C13_CaptureFailureKeepsSession ==
    [][ /\ StartFailureLeavesIdle'
        /\ \A t \in AllTabs :
              (CsStopHandled(t) /\ cs[t].mediaRecorder # "recording")
                  => activeMeetingTabs' = activeMeetingTabs ]_vars

\* C14: a stop message that reaches a content script without active
\* recorder (none yet, a start still pending, or the recorder stopped) is
\* rejected: no recorder is stopped, the content script's state is
\* unchanged and nothing is sent to the background.
C14_StopWithoutCaptureRejected ==
    [][ \A t \in AllTabs :
          (CsStopHandled(t) /\ cs[t].mediaRecorder # "recording")
              => /\ StopsStopping(acts', t) = StopsStopping(acts, t)
                 /\ Len(acts') = Len(acts) - 1
                 /\ cs' = cs
                 /\ inbox' = inbox
                 /\ runs' = runs ]_vars

\* A stop message waits at the content script of tab 1 whose recorder was
\* stopped before and whose next start still waits for getUserMedia.
C14_Witness ==
    /\ NextToContent(1) # 0
    /\ acts[NextToContent(1)].kind = "stop"
    /\ cs[1].mediaRecorder = "inactive"
    /\ cs[1].gumPending > 0

\* C15: whenever no capture is active in a tab (no recorder records, none
\* is being stopped, no getUserMedia is pending), no acquired stream has
\* running tracks.
C15_StreamsReleased ==
    \A t \in AllTabs :
        (cs[t].mediaRecorder # "recording" /\ cs[t].gumPending = 0 /\ StopsStopping(acts, t) = 0)
            => cs[t].mediaStream # "live" /\ cs[t].leaked = 0

\* C16: the stop event of a recorder that captured no chunk still sends
\* processRecording with the empty payload and shows no error, and the
\* background begins a processRecording activation for every such message.
C16_EmptyRecordingIsProcessed ==
    [][ /\ \A i \in 1..Len(acts) :
              (acts[i].kind = "stop" /\ acts[i].pc = "stopping"
                 /\ Len(acts') = Len(acts) /\ acts'[i].pc = "resume")
                  => LET t == acts[i].tab IN
                       /\ inbox' = Append(inbox, Msg("processRecording", t, 0, cs'[t].audioChunks, TRUE))
                       /\ cs'[t].statusUI = cs[t].statusUI
        /\ Handled("processRecording")
              => runs' = Append(runs, Run(TargetTab(Head(inbox)), Head(inbox).audio,
                                          Head(inbox).reply /\ Alive(Head(inbox).senderTab))) ]_vars

\* A processRecording activation runs on the empty payload of a recording
\* whose content script waits for the result.
C16_Witness ==
    \E i \in 1..Len(runs) : runs[i].audio = 0 /\ runs[i].reply /\ runs[i].pc = "upload"

\* C17: an answered poll with status queued or processing leaves the run
\* in the poll loop without transcript; status completed ends the loop with
\* the formatted transcript of that reply; status error ends it with the
\* failure "Transcription error: " and the reply's error text; and the
\* loop is left for the next stage only with the transcript of a completed
\* reply.
C17_PollUntilTerminal ==
    [][ \A i \in 1..Len(runs) :
          /\ \A reply \in PollReplies :
                (reply.ok /\ RunPoll(i, reply)) =>
                  /\ reply.body.status \in {"queued", "processing"} =>
                        runs'[i].pc = "poll" /\ runs'[i].transcript = None
                  /\ reply.body.status = "completed" =>
                        /\ runs'[i].pc = "status3"
                        /\ runs'[i].transcript = Some(FormatTranscript(reply.body))
                  /\ reply.body.status = "error" =>
                        /\ Fails(i)
                        /\ runs'[i].error = <<"Transcription error: ", Get(reply.body.error)>>
          /\ (AtPc(i, "poll") /\ Len(runs') = Len(runs) /\ runs'[i].pc \notin {"poll", "catch"}) =>
                \E reply \in PollReplies :
                    /\ reply.ok /\ reply.body.status = "completed"
                    /\ runs'[i].pc = "status3"
                    /\ runs'[i].transcript = Some(FormatTranscript(reply.body)) ]_vars

\* The poll loop of tab 1's run has ended on a completed reply: the run
\* holds the formatted transcript and is about to summarize it.
C17_Witness ==
    \E i \in 1..Len(runs) :
        /\ runs[i].tab = 1 /\ runs[i].pc = "status3"
        /\ runs[i].transcript = Some(FormatTranscript(PollBody("completed", Some(TwoUtterances), Some(OneChapter), None)))
        /\ cs[1].statusUI = <<"Transcription completed!">>

\* The poll replies that end the loop: a terminal status or a failed request.
TerminalPollReplies ==
    { r \in MeetingPollReplies : ~r.ok \/ r.body.status \in {"completed", "error"} }

\* Every request of a run is answered (each awaited message, request and
\* timer settles), and the speech service eventually answers a poll with a
\* terminal status.
RunFairness(i) ==
    /\ WF_vars(RunStatus1(i))
    /\ WF_vars(RunStatus2(i))
    /\ WF_vars(\E reply \in PlainReplies : RunUpload(i, reply))
    /\ WF_vars(\E reply \in PlainReplies : RunSubmit(i, reply))
    /\ WF_vars(\E reply \in TerminalPollReplies : RunPoll(i, reply))
    /\ WF_vars(RunStatus3(i))
    /\ WF_vars(\E reply \in SummaryReplies : RunGenSummary(i, reply))
    /\ WF_vars(\E reply \in MeetingActionReplies : RunGenActions(i, reply))
    /\ WF_vars(RunStatus4(i))
    /\ WF_vars(RunCatch(i))
    /\ WF_vars(RunSettled(i))

SpecPipelineLive == SpecPipeline /\ \A i \in 1..MaxRuns : RunFairness(i)

\* processRecording activation i has settled: it returned or threw.
Settled(i) == runs[i].pc \in {"resolved", "rejected"}

MaxEntries == 2

UtteranceSamples == { Utterance("A", "hello", 0), Utterance("B", "ship it", 61000) }
ChapterSamples == { Chapter("Kickoff", "Plans", 0, 3600000), Chapter("Wrap", "Next steps", 61000, 125999) }

\* The sequences over S of length 0..MaxEntries.
ListsOf(S) == UNION { [1..n -> S] : n \in 0..MaxEntries }

\* An absent (or null) list, or a list of up to MaxEntries entries.
OptionalListsOf(S) == {None} \cup { Some(l) : l \in ListsOf(S) }

\* The completed transcripts the speech service may return.
CompletedBodies ==
    { PollBody("completed", us, chs, None) :
        us \in OptionalListsOf(UtteranceSamples), chs \in OptionalListsOf(ChapterSamples) }

InitFormat ==
    /\ Installed
    /\ input \in { Some(b) : b \in CompletedBodies }
    /\ output = None

\* Step 4 of transcribeAudio applied to the completed transcript.
ApplyFormatTranscript ==
    /\ IsSome(input) /\ output = None
    /\ output' = Some(FormatTranscript(Get(input)))
    /\ UNCHANGED <<input, keys, autoTranscribe, page, cs, activeMeetingTabs, inbox, acts, runs>>

NextFormat == ApplyFormatTranscript

SpecFormat == InitFormat /\ [][NextFormat]_vars

\* v is an array: a sequence, the empty one included.
IsArray(v) == DOMAIN v = 1..Len(v)

\* The entries of an optional list, none when it is absent.
Entries(o) == IF IsSome(o) THEN Get(o) ELSE <<>>

\* C19: the formatted transcript has an array of utterances and an array of
\* chapters whatever the reply held; each is empty when the reply's list is
\* absent or empty, and otherwise has one entry per utterance (per chapter)
\* of the reply, in the reply's order: entry k carries the text of
\* utterance k and the speaker 'Speaker ' followed by its speaker id, and
\* chapter k the headline and summary of chapter k.
C19_NormalizedLists ==
    IsSome(output) =>
        LET body == Get(input)
            out == Get(output)
            us == Entries(body.utterances)
            chs == Entries(body.chapters)
        IN  /\ DOMAIN out = {"transcript", "chapters"}
            /\ IsArray(out.transcript) /\ IsArray(out.chapters)
            /\ Len(out.transcript) = Len(us)
            /\ Len(out.chapters) = Len(chs)
            /\ \A k \in 1..Len(us) :
                  /\ out.transcript[k].speaker = <<"Speaker ", us[k].speaker>>
                  /\ out.transcript[k].text = us[k].text
            /\ \A k \in 1..Len(chs) :
                  /\ out.chapters[k].title = chs[k].headline
                  /\ out.chapters[k].summary = chs[k].summary

\* A reply with two utterances in the order B, A and no chapter list was
\* formatted to two entries in that order and an empty chapter array.
C19_Witness ==
    /\ input = Some(PollBody("completed",
                  Some(<<Utterance("B", "ship it", 61000), Utterance("A", "hello", 0)>>), None, None))
    /\ IsSome(output)
    /\ Get(output).chapters = <<>>
    /\ Len(Get(output).transcript) = 2
    /\ Get(output).transcript[1].speaker = <<"Speaker ", "B">>
    /\ Get(output).transcript[2].speaker = <<"Speaker ", "A">>

\* ------------------------------------- formatTimestamp applied on its own
\* The longest time, in whole seconds, handed to formatTimestamp: one
\* hundred minutes, so that minutes of one, two and three digits occur.
MaxSeconds == 6000

\* The times in milliseconds: every whole second up to MaxSeconds, and the
\* first and the last millisecond after it.
Millis == { s * 1000 + r : s \in 0..MaxSeconds, r \in {0, 1, 999} }

InitTimestamp ==
    /\ Installed
    /\ input \in { Some(ms) : ms \in Millis }
    /\ output = None

\* formatTimestamp(utterance.start), formatTimestamp(chapter.start | end)
ApplyFormatTimestamp ==
    /\ IsSome(input) /\ output = None
    /\ output' = Some(formatTimestamp(Get(input)))
    /\ UNCHANGED <<input, keys, autoTranscribe, page, cs, activeMeetingTabs, inbox, acts, runs>>

NextTimestamp == ApplyFormatTimestamp

SpecTimestamp == InitTimestamp /\ [][NextTimestamp]_vars

\* The decimal digits, and the digit a character stands for.
DigitChars == { DigitChar(d) : d \in 0..9 }
DigitValue(ch) == CHOOSE d \in 0..9 : DigitChar(d) = ch

\* ds is a non-empty string of decimal digits.
IsDigits(ds) == ds # <<>> /\ \A k \in 1..Len(ds) : ds[k] \in DigitChars

\* The number a string of decimal digits denotes.
RECURSIVE Decimal(_)
Decimal(ds) ==
    IF ds = <<>> THEN 0
    ELSE Decimal(SubSeq(ds, 1, Len(ds) - 1)) * 10 + DigitValue(ds[Len(ds)])

\* C20: for a time of ms milliseconds formatTimestamp returns a minutes
\* field, one colon and a seconds field, all digits; the minutes field
\* denotes floor(ms / 1000) div 60 with no hour rollover, the seconds field
\* floor(ms / 1000) mod 60, a number in 0..59; the seconds field has two
\* characters and the minutes field at least two, with a leading zero only
\* as padding to two; 0 gives 00:00, 61000 gives 01:01 and 3600000 gives
\* 60:00.
C20_TimestampFormat ==
    IsSome(output) =>
        LET ms == Get(input)
            text == Get(output)
            totalSeconds == ms \div 1000
        IN  /\ \E k \in 1..Len(text) :
                  LET mm == SubSeq(text, 1, k - 1)
                      ss == SubSeq(text, k + 1, Len(text))
                  IN  /\ text[k] = ":"
                      /\ IsDigits(mm) /\ IsDigits(ss)
                      /\ Decimal(mm) = totalSeconds \div 60
                      /\ Decimal(ss) = totalSeconds % 60
                      /\ Decimal(ss) \in 0..59
                      /\ Len(ss) = 2
                      /\ Len(mm) >= 2
                      /\ Len(mm) > 2 => mm[1] # "0"
            /\ ms = 0 => text = <<"0", "0", ":", "0", "0">>
            /\ ms = 61000 => text = <<"0", "1", ":", "0", "1">>
            /\ ms = 3600000 => text = <<"6", "0", ":", "0", "0">>

\* One hour was formatted as sixty minutes.
C20_Witness ==
    /\ input = Some(3600000)
    /\ output = Some(<<"6", "0", ":", "0", "0">>)

\* Activation i has a generation request to the summary service under way.
Summarizing(r) == r.pc \in {"genSummary", "genActions"}

\* C21: within one processRecording activation a generation request is
\* issued only after the third status message, which follows a poll
\* answered 'completed', and with the transcript of that poll at hand; the
\* transcript is set only by that poll; and an activation that failed (in
\* upload, submit, poll or anywhere else) goes on to the failure status and
\* the rethrow only, never to a generation request.
C21_SummaryOnlyAfterTranscript ==
    [][ \A i \in 1..Len(runs) : Len(runs') = Len(runs) =>
          /\ (~Summarizing(runs[i]) /\ Summarizing(runs'[i])) =>
                /\ runs[i].pc = "status3"
                /\ IsSome(runs[i].transcript)
                /\ runs'[i].transcript = runs[i].transcript
          /\ (runs'[i].transcript # runs[i].transcript) =>
                /\ runs[i].pc = "poll" /\ runs'[i].pc = "status3"
                /\ \E reply \in PollReplies :
                      /\ reply.ok /\ reply.body.status = "completed"
                      /\ runs'[i].transcript = Some(FormatTranscript(reply.body))
          /\ (runs[i].pc \in {"upload", "submit", "poll"} /\ runs'[i].pc # runs[i].pc) =>
                runs'[i].pc \in {"submit", "poll", "status3", "catch"}
          /\ runs[i].pc \in {"catch", "rejected"} => runs'[i].pc \in {"catch", "rejected"} ]_vars

\* An activation with the transcript of a completed poll has a generation
\* request under way, the third status message shown.
C21_Witness ==
    \E i \in 1..Len(runs) :
        /\ Summarizing(runs[i])
        /\ IsSome(runs[i].transcript)
        /\ cs[runs[i].tab].statusUI = <<"Generating summary with Gemini...">>

\* ------------------------------------------- the runs of one tab's session
\* The activations of processRecording that may be in flight together in
\* SpecRuns.
MaxParallel == 2

\* One meeting tab whose in-page button starts and stops recordings again
\* and again, the capture succeeding, while the speech service takes its
\* time and then refuses the upload.
NextRuns ==
    \/ SaveSettings(FALSE)
    \/ \E t \in MainTabs : PageLoad(t, "google-meet")
    \/ \E t \in MainTabs : ClickRecord(t)
    \/ BgMeetingDetected
    \/ BgStartRecording
    \/ BgStopRecording
    \/ ProcessRecording(MaxParallel)
    \/ \E i \in 1..MaxActs : BgDetectContinue(i)
    \/ \E i \in 1..MaxActs : BgStopResume(i)
    \/ \E i \in 1..MaxActs, date \in 0..MaxClock : BgStartResume(i, date)
    \/ \E t \in MainTabs : CsHandleStart(t)
    \/ \E t \in MainTabs : CsHandleStop(t)
    \/ \E t \in MainTabs : CsGumResolve(t, TRUE)
    \/ \E i \in 1..MaxActs, hasData \in BOOLEAN : CsOnStop(i, hasData)
    \/ \E i \in 1..MaxParallel : RunStatus1(i)
    \/ \E i \in 1..MaxParallel : RunStatus2(i)
    \/ \E i \in 1..MaxParallel : RunUpload(i, UploadRefused)
    \/ \E i \in 1..MaxParallel : RunCatch(i)
    \/ \E i \in 1..MaxParallel : RunSettled(i)

SpecRuns == Init /\ [][NextRuns]_vars

\* Activation r has a request to the speech or the summary service under
\* way: a pipeline stage runs.
InStage(r) == r.pc \in {"upload", "submit", "poll", "genSummary", "genActions"}

\* The activations of processRecording for tab t with a stage running.
StagesOf(t) == { i \in 1..Len(runs) : runs[i].tab = t /\ InStage(runs[i]) }

\* C22: for each tab at most one activation of processRecording has a
\* pipeline stage running at any time.
C22_OneRunPerSession ==
    \A t \in AllTabs : Cardinality(StagesOf(t)) <= 1

\* ------------------------------------------------- the sessions of two tabs
\* The replies of a pipeline run that succeeds.
UploadAccepted == HttpReply(TRUE, "OK", None)
PollCompleted == HttpReply(TRUE, "OK", PollBody("completed", Some(TwoUtterances), Some(OneChapter), None))
SummaryGiven == GenReply(TRUE, "OK", TRUE, <<"narrative">>)
ActionsGiven == GenReply(TRUE, "OK", TRUE, <<"[", "{", "a", "}", "]">>)

\* Two meeting tabs, the capture and every service request succeeding: the
\* first tab is started, again and again; the second is started and
\* stopped with its in-page button and its recordings are processed.
NextTabs ==
    \/ SaveSettings(FALSE)
    \/ \E t \in AllTabs : PageLoad(t, IF t = 1 THEN "zoom" ELSE "google-meet")
    \/ \E t \in MainTabs : DirectMessage(t, "startRecording", 0)
    \/ \E t \in AllTabs \ MainTabs : ClickRecord(t)
    \/ BgMeetingDetected
    \/ BgStartRecording
    \/ BgStopRecording
    \/ BgProcessRecording
    \/ \E i \in 1..MaxActs : BgDetectContinue(i)
    \/ \E i \in 1..MaxActs : BgStopResume(i)
    \/ \E i \in 1..MaxActs, date \in 0..MaxClock : BgStartResume(i, date)
    \/ \E t \in AllTabs : CsHandleStart(t)
    \/ \E t \in AllTabs : CsHandleStop(t)
    \/ \E t \in AllTabs : CsGumResolve(t, TRUE)
    \/ \E i \in 1..MaxActs : CsOnStop(i, TRUE)
    \/ \E i \in 1..MaxRuns : RunStatus1(i)
    \/ \E i \in 1..MaxRuns : RunStatus2(i)
    \/ \E i \in 1..MaxRuns : RunUpload(i, UploadAccepted)
    \/ \E i \in 1..MaxRuns : RunSubmit(i, UploadAccepted)
    \/ \E i \in 1..MaxRuns : RunPoll(i, PollCompleted)
    \/ \E i \in 1..MaxRuns : RunStatus3(i)
    \/ \E i \in 1..MaxRuns : RunGenSummary(i, SummaryGiven)
    \/ \E i \in 1..MaxRuns : RunGenActions(i, ActionsGiven)
    \/ \E i \in 1..MaxRuns : RunStatus4(i)
    \/ \E i \in 1..MaxRuns : RunSettled(i)

SpecTabs == Init /\ [][NextTabs]_vars

\* This step is addressed to tab t: the listener takes a message whose
\* target is t, or an activation of handleMeetingDetected,
\* startRecordingInTab or stopRecordingInTab for t continues after an
\* await, or an activation of processRecording for t does.
Addressed(t) ==
    \/ /\ inbox # <<>> /\ inbox' = Tail(inbox)
       /\ Head(inbox).senderTab # 0
       /\ TargetTab(Head(inbox)) = t
    \/ \E i \in 1..Len(acts) : acts[i].tab = t /\ acts' = RemoveAt(acts, i)
    \/ \E i \in 1..Len(runs) :
          /\ runs[i].tab = t
          /\ \/ Len(runs') = Len(runs) /\ runs'[i].pc # runs[i].pc
             \/ runs' = RemoveAt(runs, i)

\* C23: the registry has one entry per tab id, holding no or one session;
\* a step addressed to tab A (a meetingDetected, start, stop,
\* processRecording or status message for A, or the continuation of their
\* handlers and of A's pipeline run) leaves the session of every other tab
\* as it was; and the session of a tab changes only in a step addressed to
\* that tab.
C23_SessionsIndependent ==
    [][ /\ DOMAIN activeMeetingTabs' = AllTabs
        /\ \A A \in AllTabs :
             /\ Len(activeMeetingTabs'[A]) <= 1
             /\ Addressed(A) =>
                   \A B \in AllTabs \ {A} : activeMeetingTabs'[B] = activeMeetingTabs[B]
             /\ (activeMeetingTabs'[A] # activeMeetingTabs[A]) => Addressed(A) ]_vars

\* Tab 2 was started and stopped and holds its run's results, while the
\* session of tab 1 is recording and has no results.
C23_Witness ==
    /\ HasSession(1) /\ HasSession(2)
    /\ Session(1).recording /\ Session(1).transcript = None
    /\ ~Session(2).recording /\ IsSome(Session(2).transcript) /\ IsSome(Session(2).summary)

\* C24: every invocation of generateSummary issues both generation
\* requests: whatever the reply to the summary request, a failure included,
\* the action-item request follows.
C24_BothRequestsIssued ==
    [][ \A i \in 1..Len(runs), reply \in SummaryReplies :
          RunGenSummary(i, reply) => runs'[i].pc = "genActions" ]_vars

\* C25: when both generation requests were answered with a success status,
\* generateSummary returns a result whatever the replies hold: the step
\* that takes the action-item reply does not fail and leaves the
\* activation with a summary and its action items.
C25_SummaryAlwaysReturned ==
    [][ \A i \in 1..Len(runs), reply \in ActionReplies :
          (reply.ok /\ RunGenActions(i, reply)) =>
              /\ ~Fails(i)
              /\ runs'[i].pc = "status4"
              /\ IsSome(runs'[i].summary) ]_vars

\* ------------------------------- the action-item extraction on its own
\* The most objects in an array of an action-item reply.
MaxItems == 2

\* The text of one JSON object, and of the objects bs separated by commas.
ObjectText(b) == <<"{", b, "}">>

RECURSIVE ObjectsText(_)
ObjectsText(bs) ==
    IF bs = <<>> THEN <<>>
    ELSE IF Len(bs) = 1 THEN ObjectText(bs[1])
    ELSE ObjectText(bs[1]) \o <<",">> \o ObjectsText(Tail(bs))

Ws(yes) == IF yes THEN <<"ws">> ELSE <<>>

\* A JSON array literal of the objects bs, with or without white space
\* inside the brackets.
ArrayText(bs, spaced) == <<"[">> \o Ws(spaced) \o ObjectsText(bs) \o Ws(spaced) \o <<"]">>

ItemLists == UNION { [1..n -> ItemBodies] : n \in 0..MaxItems }

ArrayLiterals == { ArrayText(bs, spaced) : bs \in ItemLists, spaced \in BOOLEAN }

\* Prose, then a fenced code block holding v, with or without the word
\* json and line breaks.
Fenced(v, lang, nl) ==
    <<"w", "fence">> \o (IF lang THEN <<"json">> ELSE <<>>) \o Ws(nl) \o v \o Ws(nl) \o <<"fence">>

\* What a fenced block may hold: an array, one object, prose, a cut-off array.
FencedValues == ArrayLiterals \cup { ObjectText("a"), <<"w">>, <<"[", "{", "a">> }

\* The texts of the action-item reply.
ActionItemTexts ==
    ArrayLiterals
        \cup { <<"w">> \o l \o <<"w">> : l \in ArrayLiterals }
        \cup { Fenced(v, lang, nl) : v \in FencedValues, lang \in BOOLEAN, nl \in BOOLEAN }
        \cup { ArrayText(<<a>>, FALSE) \o <<"w">> \o ArrayText(<<b>>, FALSE) : a \in ItemBodies, b \in ItemBodies }
        \cup { <<>>, <<"w">>, <<"w", "[", "w", "]">>, <<"[", "{", "a", "]">> }

InitActionItems ==
    /\ Installed
    /\ input \in { Some(text) : text \in ActionItemTexts }
    /\ output = None

\* generateSummary lines 133-162 applied to actionItemsText
ApplyExtractActionItems ==
    /\ IsSome(input) /\ output = None
    /\ output' = Some(ExtractActionItems(Get(input)))
    /\ UNCHANGED <<input, keys, autoTranscribe, page, cs, activeMeetingTabs, inbox, acts, runs>>

NextActionItems == ApplyExtractActionItems

SpecActionItems == InitActionItems /\ [][NextActionItems]_vars

\* items is exactly one fallback item.
IsFallback(items) ==
    /\ Len(items) = 1
    /\ items[1].assignee = "Unassigned"
    /\ items[1].speaker = "System"
    /\ items[1].timestamp = "00:00"

\* The array of action items that the literal of the objects bs denotes.
ItemsOf(bs) == [ k \in 1..Len(bs) |-> ItemOf(bs[k]) ]

\* The candidate the two patterns find in a text, if any.
Candidate(text) ==
    IF IsSome(JsonMatch(text)) THEN JsonMatch(text) ELSE CodeBlockMatch(text)

\* C26: a reply text that is exactly a JSON array literal, of any length,
\* the empty one included, gives the array it denotes; a reply with the
\* array inside a fenced code block gives that array; and a text in which
\* neither pattern is found, or whose candidate does not parse, gives
\* exactly one fallback item with assignee 'Unassigned', speaker 'System'
\* and timestamp '00:00'.
C26_ThreeTierExtraction ==
    IsSome(output) =>
        LET text == Get(input)
            out == Get(output)
        IN  /\ \A bs \in ItemLists, spaced \in BOOLEAN :
                  text = ArrayText(bs, spaced) => out.isArray /\ out.items = ItemsOf(bs)
            /\ \A bs \in ItemLists, spaced \in BOOLEAN, lang \in BOOLEAN, nl \in BOOLEAN :
                  text = Fenced(ArrayText(bs, spaced), lang, nl) =>
                      out.isArray /\ out.items = ItemsOf(bs)
            /\ (~IsSome(Candidate(text)) \/ ~JsonParse(Get(Candidate(text))).ok) =>
                  out.isArray /\ IsFallback(out.items)

\* ------------------------------------------------- the speaker history
\* What the page shows as the active speaker: none, an element without a
\* name element, or one whose name element holds a name (with or without
\* white space around it) or nothing but white space.
ActiveSpeakers ==
    { None, Some(SpeakerElement(None)) }
        \cup { Some(SpeakerElement(Some(text))) :
                 text \in { <<"Ann">>, <<"ws", "Ann", "ws">>, <<"Bob">>, <<"ws">>, <<>> } }

\* A meeting page of either platform in tab 1, loaded and left, whose
\* speaker observer sees the page change.
NextSpeakers ==
    \/ \E t \in MainTabs, platform \in {"zoom", "google-meet"} : PageLoad(t, platform)
    \/ \E t \in MainTabs : PageUnload(t)
    \/ BgMeetingDetected
    \/ \E i \in 1..MaxActs : BgDetectContinue(i)
    \/ \E t \in MainTabs, active \in ActiveSpeakers, date \in 0..MaxClock :
          SpeakerMutation(t, active, date)

SpecSpeakers == Init /\ [][NextSpeakers]_vars

\* The name of the last event of a history, None for the empty one.
LastSpeaker(h) == IF h = <<>> THEN None ELSE Some(h[Len(h)].speaker)

\* No two adjacent events of the history carry the same name.
NoRepeat(h) == \A k \in 1..(Len(h) - 1) : h[k].speaker # h[k + 1].speaker

\* C27: a mutation appends an event to the speaker history exactly when
\* it resolves a name that differs from the name of the last event, the
\* 'Unknown Speaker' name included, so further mutations resolving to the
\* same name add nothing; and the history never holds two adjacent events
\* with the same name.
C27_SpeakerDeduplication ==
    [][ \A t \in AllTabs :
          /\ NoRepeat(cs'[t].speakerHistory)
          /\ \A active \in ActiveSpeakers, date \in 0..MaxClock :
                SpeakerMutation(t, active, date) =>
                    LET h == cs[t].speakerHistory IN
                    IF IsSome(active) /\ LastSpeaker(h) # Some(ResolvedName(t, Get(active)))
                    THEN cs'[t].speakerHistory =
                            Append(h, [speaker |-> ResolvedName(t, Get(active)), time |-> date])
                    ELSE cs'[t].speakerHistory = h ]_vars

\* The history of tab 1 holds the unknown speaker, then Ann, then the
\* unknown speaker again, Ann's name read from a padded name element.
C27_Witness ==
    /\ Len(cs[1].speakerHistory) = 3
    /\ cs[1].speakerHistory[1].speaker = UnknownSpeaker
    /\ cs[1].speakerHistory[2].speaker = <<"Ann">>
    /\ cs[1].speakerHistory[3].speaker = UnknownSpeaker
    /\ cs[1].speakerUI = <<"Current speaker: ", "Unknown Speaker">>

\* ------------------------------------------------- C28: meeting detection
\* String.prototype.includes on token strings: pat occurs in text as a
\* contiguous run of tokens.
Includes(text, pat) ==
    \E i \in 0..(Len(text) - Len(pat)) :
        \A j \in 1..Len(pat) : text[i + j] = pat[j]

\* The pages a tab is navigated to.
ZoomJoinUrl == <<"https://", "zoom.us", "/", "j", "/", "123">>
ZoomWebClientUrl == <<"https://", "zoom.us", "/", "wc", "/", "123">>
ZoomPricingUrl == <<"https://", "zoom.us", "/", "pricing">>
MeetUrl == <<"https://", "meet.google.com", "/", "abc">>
MeetRedirectUrl ==
    <<"https://", "meet.google.com", "/", "linkredirect", "?dest=">> \o ZoomJoinUrl
OtherUrl == <<"https://", "example.com", "/">>

Urls ==
    {ZoomJoinUrl, ZoomWebClientUrl, ZoomPricingUrl, MeetUrl, MeetRedirectUrl, OtherUrl}

\* the values of enum MeetingPlatform
MeetingPlatform == [ZOOM |-> "zoom", GOOGLE_MEET |-> "google-meet", UNKNOWN |-> "unknown"]

\* detectMeetingPlatform (part_000 69-79): the platform it assigns to
\* window.location.href
detectMeetingPlatform(url) ==
    IF Includes(url, <<"zoom.us">>) THEN MeetingPlatform.ZOOM
    ELSE IF Includes(url, <<"meet.google.com">>) THEN MeetingPlatform.GOOGLE_MEET
    ELSE MeetingPlatform.UNKNOWN

\* tabs.onUpdated (index.ts 66-71): is the completed page a meeting page
IsMeetingUrl(url) ==
    LET isZoomMeeting == /\ Includes(url, <<"zoom.us", "/">>)
                         /\ \/ Includes(url, <<"/", "j", "/">>)
                            \/ Includes(url, <<"/", "wc", "/">>)
        isGoogleMeet == Includes(url, <<"meet.google.com", "/">>)
    IN  isZoomMeeting \/ isGoogleMeet

\* The navigation of a tab, kept in input: the URL loaded, whether the
\* background's executeScript is still to run, and the number of
\* meetingDetected messages the page has sent.
Navigation(t, url, pending) == [tab |-> t, url |-> url, pending |-> pending, events |-> 0]

\* Tab t loads url and tabs.onUpdated reports status 'complete'
\* (index.ts 64-83): for a meeting URL the background sends checkActive,
\* which the new document, having no content script, rejects, and the
\* catch handler calls executeScript.
Navigate(t, url) ==
    /\ page[t] = "none"
    /\ input' = Some(Navigation(t, url, IsMeetingUrl(url)))
    /\ UNCHANGED <<output, keys, autoTranscribe, page, cs, activeMeetingTabs, inbox, acts, runs>>

\* executeScript settles (index.ts 76-79).  ok: the content script runs
\* initialize() (part_000 55-66) in the page, and detectMeetingPlatform
\* sends meetingDetected unless the platform is UNKNOWN (part_000 81-87);
\* otherwise the rejection is logged.
InjectContentScript(t, ok) ==
    /\ IsSome(input)
    /\ Get(input).tab = t
    /\ Get(input).pending
    /\ Len(inbox) < MaxInbox
    /\ LET nav == Get(input)
           meetingPlatform == detectMeetingPlatform(nav.url)
           sends == ok /\ meetingPlatform # MeetingPlatform.UNKNOWN
       IN  /\ input' = Some([nav EXCEPT !.pending = FALSE,
                                        !.events = IF sends THEN @ + 1 ELSE @])
           /\ page' = IF ok THEN [page EXCEPT ![t] = meetingPlatform] ELSE page
           /\ cs' = IF ok
                    THEN [cs EXCEPT ![t] = IF KeysValid THEN InitCs
                                           ELSE [InitCs EXCEPT !.statusUI = KeysWarning]]
                    ELSE cs
           /\ inbox' = IF sends
                       THEN Append(inbox, [Msg("meetingDetected", t, 0, 0, FALSE)
                                              EXCEPT !.platform = meetingPlatform])
                       ELSE inbox
    /\ UNCHANGED <<output, keys, autoTranscribe, activeMeetingTabs, acts, runs>>

NextDetect ==
    \/ \E auto \in BOOLEAN : SaveSettings(auto)
    \/ \E t \in MainTabs, url \in Urls : Navigate(t, url)
    \/ \E t \in MainTabs, ok \in BOOLEAN : InjectContentScript(t, ok)
    \/ \E t \in MainTabs : PageUnload(t)
    \/ BgMeetingDetected
    \/ \E i \in 1..MaxActs : BgDetectContinue(i)
    \/ \E i \in 1..MaxActs, date \in 0..MaxClock : BgStartResume(i, date)
    \/ \E t \in MainTabs : CsHandleStart(t)

SpecDetect == Init /\ [][NextDetect]_vars

\* The platform a URL belongs to: that of its host.
Host(url) == url[2]
UrlPlatform(url) ==
    IF Host(url) = "zoom.us" THEN MeetingPlatform.ZOOM
    ELSE IF Host(url) = "meet.google.com" THEN MeetingPlatform.GOOGLE_MEET
    ELSE MeetingPlatform.UNKNOWN

\* C28: a meeting-detected event is sent only from a page whose URL is a
\* meeting URL, carries the platform of that URL (Zoom for zoom.us,
\* GoogleMeet for meet.google.com) and is sent at most once per
\* navigation, exactly once when the script runs on a meeting page; the
\* session created from the event has the event's platform, never Unknown.
C28_DetectionMatchesUrl ==
    [][ \A t \in MainTabs :
          /\ \A ok \in BOOLEAN :
               InjectContentScript(t, ok) =>
                  LET nav == Get(input)
                  IN  /\ Get(input').events <= 1
                      /\ (inbox' # inbox) =>
                            /\ UrlPlatform(nav.url) # MeetingPlatform.UNKNOWN
                            /\ inbox'[Len(inbox')].platform = UrlPlatform(nav.url)
                      /\ (ok /\ UrlPlatform(nav.url) # MeetingPlatform.UNKNOWN) =>
                            Get(input').events = 1
          /\ (activeMeetingTabs'[t] # activeMeetingTabs[t] /\ ~HasSession(t)) =>
                /\ inbox # <<>>
                /\ Session(t)'.platform = Head(inbox).platform
                /\ Session(t)'.platform # MeetingPlatform.UNKNOWN ]_vars

\* ------------------------------------------------ C29: a start is rejected
\* The caller's view of a tab (Popup.tsx 21, meetingInfo), kept in
\* input: the tab it commands, whether it shows the tab as recording and
\* whether it waits for the result of a start message.
MeetingInfo(t, recording, awaiting) ==
    [tabId |-> t, recording |-> recording, awaiting |-> awaiting]

\* No sender: the popup.
Popup == 0

\* startRecording of a page of the extension (Popup.tsx 108-127): both
\* keys were found, the startRecording message naming tab t is sent and its
\* result awaited.  from is the sender's tab, Popup for the popup.
StartCommand(from, t) ==
    /\ from # Popup => Alive(from)
    /\ KeysValid
    /\ Len(inbox) < MaxInbox
    /\ IsSome(input) => ~Get(input).awaiting
    /\ inbox' = Append(inbox, Msg("startRecording", from, t, 0, TRUE))
    /\ input' = Some(MeetingInfo(t, FALSE, TRUE))
    /\ output' = None
    /\ UNCHANGED <<keys, autoTranscribe, page, cs, activeMeetingTabs, acts, runs>>

\* The awaited sendMessage settles (Popup.tsx 129-137): resolved with any
\* value, the caller marks the tab as recording; rejected, it shows an
\* error.
StartSettled ==
    /\ IsSome(input)
    /\ Get(input).awaiting
    /\ IsSome(output)
    /\ input' = Some(MeetingInfo(Get(input).tabId, Get(output) # Rejected, FALSE))
    /\ output' = None
    /\ UNCHANGED <<keys, autoTranscribe, page, cs, activeMeetingTabs, inbox, acts, runs>>

NextStart ==
    \/ SaveSettings(FALSE)
    \/ \E t \in MainTabs : PageLoad(t, "zoom")
    \/ \E t \in MainTabs : PageUnload(t)
    \/ \E from \in {Popup} \cup MainTabs, t \in AllTabs : StartCommand(from, t)
    \/ StartSettled
    \/ BgDrop
    \/ BgMeetingDetected
    \/ BgStartRecording
    \/ \E i \in 1..MaxActs : BgDetectContinue(i)
    \/ \E i \in 1..MaxActs, date \in 0..MaxClock : BgStartResume(i, date)
    \/ \E t \in MainTabs : CsHandleStart(t)
    \/ \E t \in MainTabs : CsGumResolve(t, TRUE)

SpecStart == Init /\ [][NextStart]_vars

\* The listener takes a startRecording message whose target has no session.
SessionlessStart ==
    /\ inbox # <<>>
    /\ Head(inbox).action = "startRecording"
    /\ ~HasSession(TargetTab(Head(inbox)))
    /\ inbox' = Tail(inbox)

\* C29: a start command for a tab without session changes no state (no
\* session is created, no capture is started), its sender is told that it
\* was rejected, and the sender never shows as recording a tab whose start
\* was rejected.
C29_RejectedStartReported ==
    [][ /\ SessionlessStart =>
             /\ UNCHANGED <<activeMeetingTabs, cs, acts, runs>>
             /\ Head(inbox).reply => output' = Some(Rejected)
        /\ (IsSome(input') /\ Get(input').recording) =>
              HasSession(Get(input').tabId) ]_vars

\* ---------------------------------------------------- C30: the start time
\* C30: a session carries a start time exactly while it is recording: the
\* time is stamped when the session starts recording and cleared when it
\* returns to idle, so an idle session has none.
C30_StartTimeOnlyWhileRecording ==
    \A t \in AllTabs :
        HasSession(t) => (Session(t).recording <=> IsSome(Session(t).startTime))

\* ------------------------------------------- C31: a stop leads to one run
\* The most stop commands the background has under way at once.
MaxStops == 2

NextStop ==
    \/ SaveSettings(FALSE)
    \/ \E t \in MainTabs : PageLoad(t, "zoom")
    \/ \E t \in MainTabs : PageUnload(t)
    \/ \E t \in MainTabs : ClickRecord(t)
    \/ BgMeetingDetected
    \/ BgStartRecording
    \/ StopCommand(MaxStops)
    \/ BgProcessRecording
    \/ \E i \in 1..MaxStops : BgDetectContinue(i)
    \/ \E i \in 1..MaxStops : BgStopResume(i)
    \/ \E i \in 1..MaxStops, date \in 0..MaxClock : BgStartResume(i, date)
    \/ \E t \in MainTabs : CsHandleStart(t)
    \/ \E t \in MainTabs : CsHandleStop(t)
    \/ \E t \in MainTabs : CsGumResolve(t, TRUE)
    \/ \E i \in 1..MaxStops, hasData \in BOOLEAN : CsOnStop(i, hasData)
    \/ \E i \in 1..MaxRuns : RunStatus1(i)
    \/ \E i \in 1..MaxRuns : RunStatus2(i)
    \/ \E i \in 1..MaxRuns : RunUpload(i, UploadRefused)
    \/ \E i \in 1..MaxRuns : RunCatch(i)
    \/ \E i \in 1..MaxRuns : RunSettled(i)

SpecStop == Init /\ [][NextStop]_vars

\* A stopped recorder fires its stop event (part_000 289-306), the
\* listener takes the message it is sent (index.ts 30-61), and every
\* request of a run is answered.
SpecStopLive ==
    /\ SpecStop
    /\ WF_vars(\E i \in 1..MaxStops, hasData \in BOOLEAN : CsOnStop(i, hasData))
    /\ WF_vars(BgProcessRecording)
    /\ \A i \in 1..MaxRuns : RunFairness(i)

\* The processRecording messages of tab t's content script in queue q.
Payloads(q, t) ==
    Cardinality({ j \in 1..Len(q) : q[j].action = "processRecording" /\ q[j].senderTab = t })

\* A start or stop command waits in the inbox.
CommandWaiting ==
    \E j \in 1..Len(inbox) : inbox[j].action \in {"startRecording", "stopRecording"}

\* C31: a stop that ends a recording leads, with no further command, to
\* one processRecording activation on that recording's payload: the stop
\* event sends exactly one processRecording message with the recorded
\* chunks and the listener begins exactly one activation for it; a stop
\* message for a recording that a stop has ended already stops nothing and
\* sends nothing.
C31_StopLeadsToOneRun ==
    /\ \A t \in MainTabs :
         (StopsStopping(acts, t) > 0 /\ inbox = <<>>)
             ~> (Payloads(inbox, t) > 0 \/ CommandWaiting \/ ~Alive(t))
    /\ (inbox # <<>> /\ Head(inbox).action = "processRecording")
           ~> (inbox = <<>> \/ Head(inbox).action # "processRecording")
    /\ [][ /\ \A t \in MainTabs :
                /\ CsStopHandled(t) =>
                      IF cs[t].mediaRecorder = "recording"
                      THEN /\ StopsStopping(acts', t) = StopsStopping(acts, t) + 1
                           /\ cs'[t].mediaRecorder = "inactive"
                      ELSE /\ StopsStopping(acts', t) = StopsStopping(acts, t)
                           /\ Payloads(inbox', t) = Payloads(inbox, t)
                /\ Payloads(inbox', t) > Payloads(inbox, t) =>
                      /\ Payloads(inbox', t) = Payloads(inbox, t) + 1
                      /\ StopsStopping(acts', t) = StopsStopping(acts, t) - 1
                      /\ inbox'[Len(inbox')].audio = cs'[t].audioChunks
           /\ Len(runs') > Len(runs) =>
                 /\ Handled("processRecording")
                 /\ Len(runs') = Len(runs) + 1
                 /\ runs'[Len(runs')].tab = TargetTab(Head(inbox))
                 /\ runs'[Len(runs')].audio = Head(inbox).audio ]_vars

\* The activation for the recording of tab 1 has begun while a second stop
\* command for the same recording is still on its way to the content
\* script, whose recorder is stopped.
C31_Witness ==
    /\ \E i \in 1..Len(runs) : runs[i].tab = 1 /\ runs[i].pc = "status1"
    /\ StopsWaiting(acts, 1) > 0
    /\ cs[1].mediaRecorder = "inactive"

\* ------------------------------------------ C32: status is display only
\* C32: the status messages serve the display alone: whether a status
\* message could be delivered to the tab never decides how an activation
\* of processRecording ends, so no activation fails with the error of an
\* undelivered status message.
C32_StatusOnlyForDisplay ==
    [][ \A i \in 1..Len(runs) :
          (Len(runs') = Len(runs) /\ runs'[i] # runs[i]
             /\ runs'[i].pc \in {"catch", "rejected"})
              => runs'[i].error # NoReceiver ]_vars

\* --------------------------------- C33: the progress notifications' order
\* The most iterations of the poll loop followed.
MaxPolls == 5

\* transcribeAudio (assemblyAIService.ts 24-121) on its own: input is the
\* call in progress (its place, the iterations of the poll loop begun and
\* the value it returned or the message of the error it threw), and output
\* the notifications statusCallback was given so far, in order.
Transcribing(pc, polls) == [pc |-> pc, polls |-> polls, result |-> None]

\* The call throws an error with the given message (lines 122-125).
Thrown(call, message) == [call EXCEPT !.pc = "thrown", !.result = Some(message)]

UploadNotice == <<"Uploading audio to AssemblyAI...">>
SubmitNotice == <<"Requesting transcription...">>
WaitNotice == <<"Waiting for transcription to complete...">>
StatusNotice(status) == <<"Transcription status: ", status>>
FormatNotice == <<"Formatting transcript data...">>
CompletedNotice == <<"Transcription completed!">>

\* transcribeAudio is called: upload start is reported and the upload
\* requested (lines 24-38).
TranscribeBegin ==
    /\ input = None
    /\ input' = Some(Transcribing("upload", 0))
    /\ output' = Some(<<UploadNotice>>)
    /\ UNCHANGED <<keys, autoTranscribe, page, cs, activeMeetingTabs, inbox, acts, runs>>

\* The upload's reply (lines 40-61)
TranscribeUploaded(reply) ==
    /\ IsSome(input) /\ Get(input).pc = "upload"
    /\ IF ~reply.ok
       THEN /\ input' = Some(Thrown(Get(input), <<"Failed to upload audio: ", reply.statusText>>))
            /\ output' = output
       ELSE /\ input' = Some([Get(input) EXCEPT !.pc = "submit"])
            /\ output' = Some(Append(Get(output), SubmitNotice))
    /\ UNCHANGED <<keys, autoTranscribe, page, cs, activeMeetingTabs, inbox, acts, runs>>

\* The submit's reply, then the first iteration of the loop up to its
\* timer (lines 63-76)
TranscribeSubmitted(reply) ==
    /\ IsSome(input) /\ Get(input).pc = "submit"
    /\ IF ~reply.ok
       THEN /\ input' = Some(Thrown(Get(input),
                                  <<"Failed to request transcription: ", reply.statusText>>))
            /\ output' = output
       ELSE /\ input' = Some([Get(input) EXCEPT !.pc = "poll", !.polls = 1])
            /\ output' = Some(Append(Get(output), WaitNotice))
    /\ UNCHANGED <<keys, autoTranscribe, page, cs, activeMeetingTabs, inbox, acts, runs>>

\* the loop reporting nothing from its second iteration on
TranscribePolled_SilentLoop(reply) ==
    /\ IsSome(input) /\ Get(input).pc = "poll"
    /\ LET pollingResult == reply.body IN
        IF ~reply.ok
        THEN /\ input' = Some(Thrown(Get(input),
                                   <<"Failed to poll transcription: ", reply.statusText>>))
             /\ output' = output
        ELSE IF pollingResult.status = "error"
        THEN /\ input' = Some(Thrown(Get(input), <<"Transcription error: ">> \o
                                   (IF IsSome(pollingResult.error) THEN pollingResult.error
                                    ELSE <<"undefined">>)))
             /\ output' = output
        ELSE IF pollingResult.status = "completed"
        THEN /\ input' = Some([Get(input) EXCEPT
                                  !.pc = "returned",
                                  !.result = Some(FormatTranscript(pollingResult))])
             /\ output' = Some(Get(output) \o <<FormatNotice, CompletedNotice>>)
        ELSE /\ Get(input).polls < MaxPolls
             /\ input' = Some([Get(input) EXCEPT !.polls = @ + 1])
             /\ output' = output
    /\ UNCHANGED <<keys, autoTranscribe, page, cs, activeMeetingTabs, inbox, acts, runs>>

\* The timer and the poll's reply (lines 76-100): the loop ends with the
\* formatting (lines 102-121) or a throw, or the status is reported and the
\* next iteration runs up to its timer.
TranscribePolled(reply) ==
    /\ IsSome(input) /\ Get(input).pc = "poll"
    /\ LET pollingResult == reply.body IN
        IF ~reply.ok
        THEN /\ input' = Some(Thrown(Get(input),
                                   <<"Failed to poll transcription: ", reply.statusText>>))
             /\ output' = output
        ELSE IF pollingResult.status = "error"
        THEN /\ input' = Some(Thrown(Get(input), <<"Transcription error: ">> \o
                                   (IF IsSome(pollingResult.error) THEN pollingResult.error
                                    ELSE <<"undefined">>)))
             /\ output' = output
        ELSE IF pollingResult.status = "completed"
        THEN /\ input' = Some([Get(input) EXCEPT
                                  !.pc = "returned",
                                  !.result = Some(FormatTranscript(pollingResult))])
             /\ output' = Some(Get(output) \o <<FormatNotice, CompletedNotice>>)
        ELSE /\ Get(input).polls < MaxPolls
             /\ input' = Some([Get(input) EXCEPT !.polls = @ + 1])
             /\ output' = Some(Get(output) \o <<StatusNotice(pollingResult.status), WaitNotice>>)
    /\ UNCHANGED <<keys, autoTranscribe, page, cs, activeMeetingTabs, inbox, acts, runs>>

\* The caller has the result or the error (index.ts 190, 223).
TranscribeSettled ==
    /\ IsSome(input) /\ Get(input).pc \in {"returned", "thrown"}
    /\ input' = None
    /\ output' = None
    /\ UNCHANGED <<keys, autoTranscribe, page, cs, activeMeetingTabs, inbox, acts, runs>>

NextProgress ==
    \/ TranscribeBegin
    \/ \E reply \in PlainReplies : TranscribeUploaded(reply)
    \/ \E reply \in PlainReplies : TranscribeSubmitted(reply)
    \/ \E reply \in PollReplies : TranscribePolled(reply)
    \/ TranscribeSettled

SpecProgress == Init /\ [][NextProgress]_vars

\* The stage a notification belongs to: upload, submit, poll, normalization.
Stage(notice) ==
    IF notice = UploadNotice THEN 1
    ELSE IF notice = SubmitNotice THEN 2
    ELSE IF notice = WaitNotice \/ notice[1] = "Transcription status: " THEN 3
    ELSE 4

\* The notifications of log that belong to stage s.
OfStage(log, s) == { j \in 1..Len(log) : Stage(log[j]) = s }

\* The place of normalization start in log, 0 when it was not reported.
FormatAt(log) ==
    IF \E j \in 1..Len(log) : log[j] = FormatNotice
    THEN CHOOSE j \in 1..Len(log) : log[j] = FormatNotice
    ELSE 0

\* C33: the notifications of a transcribeAudio call come in pipeline
\* order: upload start first and once, submit start once after a
\* successful upload, at least one notification for every iteration of the
\* poll loop, normalization start once after the last poll; no
\* notification of an earlier stage follows one of a later stage, and a
\* step that fails reports nothing.
C33_ProgressInOrder ==
    [][ IsSome(input') =>
          LET call == Get(input')
              log == Get(output')
          IN  /\ \A j, k \in 1..Len(log) : j < k => Stage(log[j]) <= Stage(log[k])
              /\ log[1] = UploadNotice /\ Cardinality(OfStage(log, 1)) = 1
              /\ call.pc \in {"submit", "poll", "returned"} =>
                    Cardinality(OfStage(log, 2)) = 1
              /\ Cardinality(OfStage(log, 3)) >= call.polls
              /\ call.polls > 0 => log[Len(log)] = WaitNotice \/ call.pc # "poll"
              /\ call.pc = "returned" <=> FormatAt(log) # 0
              /\ call.pc = "returned" =>
                    /\ Cardinality({ j \in 1..Len(log) : log[j] = FormatNotice }) = 1
                    /\ \A j \in OfStage(log, 3) : j < FormatAt(log)
              /\ call.pc = "thrown" => (IsSome(output) /\ log = Get(output)) ]_vars

\* A call returned after three iterations of the poll loop, the first two
\* answered with a status that is not terminal.
C33_Witness ==
    /\ IsSome(input) /\ Get(input).pc = "returned" /\ Get(input).polls = 3
    /\ Get(input).result = Some(FormatTranscript(PollBody("completed", Some(TwoUtterances),
                                                          Some(OneChapter), None)))
    /\ Get(output) = <<UploadNotice, SubmitNotice, WaitNotice,
                       StatusNotice("queued"), WaitNotice,
                       StatusNotice("processing"), WaitNotice,
                       FormatNotice, CompletedNotice>>

\* ------------------------------- C34: the speaker tracker and the recording
\* What the page shows as the active speaker while recordings come and go.
TrackedSpeakers ==
    { None, Some(SpeakerElement(None)), Some(SpeakerElement(Some(<<"Ann">>))) }

\* A meeting page in tab 1 whose recordings are started, stopped and
\* processed while its speaker observer sees the page change.
NextTracker ==
    \/ SaveSettings(FALSE)
    \/ \E t \in MainTabs : PageLoad(t, "zoom")
    \/ \E t \in MainTabs : PageUnload(t)
    \/ \E t \in MainTabs : ClickRecord(t)
    \/ \E t \in MainTabs, active \in TrackedSpeakers, date \in 0..MaxClock :
          SpeakerMutation(t, active, date)
    \/ BgMeetingDetected
    \/ BgStartRecording
    \/ BgStopRecording
    \/ BgProcessRecording
    \/ \E i \in 1..MaxActs : BgDetectContinue(i)
    \/ \E i \in 1..MaxActs : BgStopResume(i)
    \/ \E i \in 1..MaxActs, date \in 0..MaxClock : BgStartResume(i, date)
    \/ \E t \in MainTabs : CsHandleStart(t)
    \/ \E t \in MainTabs : CsHandleStop(t)
    \/ \E t \in MainTabs : CsGumResolve(t, TRUE)
    \/ \E t \in MainTabs : CsGumReject(t)
    \/ \E i \in 1..MaxActs : CsOnStop(i, TRUE)
    \/ \E i \in 1..MaxRuns : RunStatus1(i)
    \/ \E i \in 1..MaxRuns : RunStatus2(i)
    \/ \E i \in 1..MaxRuns : RunUpload(i, UploadRefused)
    \/ \E i \in 1..MaxRuns : RunCatch(i)
    \/ \E i \in 1..MaxRuns : RunSettled(i)

SpecTracker == Init /\ [][NextTracker]_vars

\* The speaker tracker's part of a content script's state.
Tracker(c) ==
    [currentSpeaker |-> c.currentSpeaker, speakerHistory |-> c.speakerHistory,
     speakerUI |-> c.speakerUI]

\* The rest of it: the recording and capture state and the status display.
Capture(c) ==
    [c EXCEPT !.currentSpeaker = <<>>, !.speakerHistory = <<>>, !.speakerUI = <<>>]

\* History h begins with history g.
Extends(h, g) == Len(g) <= Len(h) /\ SubSeqOrEmpty(h, 1, Len(g)) = g

\* C34: the speaker tracker and the recording do not touch each other.  A
\* mutation that resolves a new name is recorded whatever the recording
\* state, and changes neither the capture state of the page nor the
\* sessions, commands and runs of the background; a step that changes any
\* of these (a start, a stop, a status message) leaves the tracker as it
\* was; and while the page lives the history only grows at its end.
C34_TrackerIndependent ==
    [][ \A t \in MainTabs :
          /\ \A active \in TrackedSpeakers, date \in 0..MaxClock :
                SpeakerMutation(t, active, date) =>
                    /\ Capture(cs'[t]) = Capture(cs[t])
                    /\ UNCHANGED <<activeMeetingTabs, acts, runs, inbox, page>>
                    /\ (IsSome(active) /\ Some(ResolvedName(t, Get(active))) # cs[t].currentSpeaker)
                          => /\ Len(cs'[t].speakerHistory) = Len(cs[t].speakerHistory) + 1
                             /\ cs'[t].currentSpeaker = Some(ResolvedName(t, Get(active)))
          /\ (page'[t] = page[t]) =>
                /\ Extends(cs'[t].speakerHistory, cs[t].speakerHistory)
                /\ ( \/ Capture(cs'[t]) # Capture(cs[t])
                     \/ <<activeMeetingTabs, acts, runs, inbox>>' # <<activeMeetingTabs, acts, runs, inbox>> )
                      => Tracker(cs'[t]) = Tracker(cs[t]) ]_vars

\* Tab 1 records, with a recorder running and the session recording, and
\* its history holds a speaker noted before the start and one noted since.
C34_Witness ==
    /\ cs[1].isRecording /\ cs[1].mediaRecorder = "recording"
    /\ HasSession(1) /\ Session(1).recording
    /\ Len(cs[1].speakerHistory) = 2
    /\ cs[1].speakerHistory[1].time = 0
    /\ cs[1].speakerHistory[2].time = 1
    /\ IsSome(Session(1).startTime) /\ Get(Session(1).startTime) = 1

\* ------------------------------- C35: the two recording flags
\* No command is on its way: nothing waits in the background's queue, no
\* handler is suspended and no start still waits for its media stream.
NoCommandInFlight(t) == inbox = <<>> /\ acts = <<>> /\ cs[t].gumPending = 0

\* C35: whenever no command is in flight, the recording flag of a tab's
\* session equals the isRecording flag of the content script of that tab.
C35_FlagsAgree ==
    \A t \in AllTabs :
        (HasSession(t) /\ Alive(t) /\ NoCommandInFlight(t))
            => Session(t).recording = cs[t].isRecording

\* ------------------------------- C36: a poll request that fails
\* The poll replies whose HTTP status is no success.
FailedPolls == { reply \in PollReplies : ~reply.ok }

\* The error thrown for a failed poll (assemblyAIService.ts 86-88)
PollFailure(reply) == <<"Failed to poll transcription: ", reply.statusText>>

\* C36: a poll answered with a non-success HTTP status ends the poll loop
\* at once: the run fails with "Failed to poll transcription: " and the
\* status text, without transcript and without a further status on the
\* page; a failed run never polls again; and its failure handler shows
\* "Processing failed: " with that error on the page of its tab and
\* rejects with it.
C36_FailedPollEndsRun ==
    [][ \A i \in 1..Len(runs) :
          /\ \A reply \in FailedPolls :
                RunPoll(i, reply) =>
                    /\ Fails(i)
                    /\ runs'[i].error = PollFailure(reply)
                    /\ runs'[i].transcript = None
                    /\ cs' = cs
          /\ (runs[i].pc = "catch" /\ Len(runs') = Len(runs)) =>
                runs'[i].pc \in {"catch", "rejected"}
          /\ \A reply \in FailedPolls :
                (runs[i].error = PollFailure(reply) /\ Alive(runs[i].tab) /\ RunCatch(i)) =>
                    /\ runs'[i].pc = "rejected"
                    /\ runs'[i].error = PollFailure(reply)
                    /\ cs'[runs[i].tab].statusUI = <<"Processing failed: ">> \o PollFailure(reply) ]_vars

\* The run of tab 1 failed on a poll answered 502 and has settled: the
\* page shows the poll failure and no transcript was stored.
C36_Witness ==
    /\ runs = <<>>
    /\ cs[1].statusUI = <<"Processing failed: ", "Failed to poll transcription: ", "Bad Gateway">>
    /\ HasSession(1) /\ Session(1).transcript = None

\* ------------------------------- C37: which tabs have a session
\* A meeting in tab 1 that is recorded, asked for its status, stopped and
\* processed, every request of the pipeline but the upload succeeding.
NextSessions ==
    \/ SaveSettings(FALSE)
    \/ \E t \in MainTabs : PageLoad(t, "zoom")
    \/ \E t \in MainTabs : PageUnload(t)
    \/ \E t \in MainTabs : ClickRecord(t)
    \/ \E t \in MainTabs : PopupCheckStatus(t)
    \/ \E t \in MainTabs : DirectMessage(t, "checkRecordingStatus", 0)
    \/ BgDrop
    \/ BgCheckRecordingStatus
    \/ BgMeetingDetected
    \/ BgStartRecording
    \/ BgStopRecording
    \/ BgProcessRecording
    \/ \E i \in 1..MaxActs : BgDetectContinue(i)
    \/ \E i \in 1..MaxActs : BgStopResume(i)
    \/ \E i \in 1..MaxActs, date \in 0..MaxClock : BgStartResume(i, date)
    \/ \E t \in MainTabs : CsHandleStart(t)
    \/ \E t \in MainTabs : CsHandleStop(t)
    \/ \E t \in MainTabs : CsGumResolve(t, TRUE)
    \/ \E i \in 1..MaxActs : CsOnStop(i, TRUE)
    \/ \E i \in 1..MaxRuns : RunStatus1(i)
    \/ \E i \in 1..MaxRuns : RunStatus2(i)
    \/ \E i \in 1..MaxRuns, reply \in PlainReplies : RunUpload(i, reply)
    \/ \E i \in 1..MaxRuns : RunSubmit(i, UploadAccepted)
    \/ \E i \in 1..MaxRuns : RunPoll(i, PollCompleted)
    \/ \E i \in 1..MaxRuns : RunStatus3(i)
    \/ \E i \in 1..MaxRuns : RunGenSummary(i, SummaryGiven)
    \/ \E i \in 1..MaxRuns : RunGenActions(i, ActionsGiven)
    \/ \E i \in 1..MaxRuns : RunStatus4(i)
    \/ \E i \in 1..MaxRuns : RunCatch(i)
    \/ \E i \in 1..MaxRuns : RunSettled(i)

SpecSessions == Init /\ [][NextSessions]_vars

\* The tabs that have a session (the keys of activeMeetingTabs)
SessionTabs == { t \in AllTabs : HasSession(t) }

\* C37: the set of tabs with a session changes only when a meetingDetected
\* message is handled, and then only by the sender's tab; the step that
\* ends a pipeline run successfully stores the results in the session of
\* the run's tab when there is one and changes no session otherwise; and
\* a session gets a transcript in no other step.
C37_SessionsOnlyByDetection ==
    [][ /\ (SessionTabs' # SessionTabs) =>
              /\ Handled("meetingDetected")
              /\ SessionTabs' = SessionTabs \cup {Head(inbox).senderTab}
        /\ \A i \in 1..Len(runs) :
              Moves(i, "genActions", "status4") =>
                  IF HasSession(runs[i].tab)
                  THEN Get(activeMeetingTabs'[runs[i].tab]).transcript = runs'[i].transcript
                  ELSE activeMeetingTabs' = activeMeetingTabs
        /\ \A t \in AllTabs :
              ( /\ IsSome(activeMeetingTabs'[t])
                /\ IsSome(Get(activeMeetingTabs'[t]).transcript)
                /\ \/ ~HasSession(t)
                   \/ Get(activeMeetingTabs'[t]).transcript # Session(t).transcript )
                  => /\ HasSession(t)
                     /\ \E i \in 1..Len(runs) :
                           runs[i].tab = t /\ Moves(i, "genActions", "status4") ]_vars

\* Tab 1 was recorded, stopped and asked for its status, and its run has
\* stored its results: tab 1 is the only tab with a session.
C37_Witness ==
    /\ SessionTabs = {1}
    /\ \E i \in 1..Len(runs) : runs[i].tab = 1 /\ runs[i].pc = "resolved" /\ runs[i].stored
    /\ IsSome(Session(1).transcript)
    /\ ~Session(1).recording /\ IsSome(Session(1).startTime)
    /\ output = Some(getRecordingStatus(activeMeetingTabs, 1))

\* ------------------------------- C38: the current speaker and the history
\* C38: in every state of every content script currentSpeaker is null
\* exactly when the speaker history is empty, and otherwise it is the
\* speaker name of the last history entry.
C38_CurrentSpeakerIsLastEntry ==
    \A t \in AllTabs :
        /\ cs[t].currentSpeaker = None <=> cs[t].speakerHistory = <<>>
        /\ cs[t].speakerHistory # <<>> =>
              cs[t].currentSpeaker =
                  Some(cs[t].speakerHistory[Len(cs[t].speakerHistory)].speaker)

\* Tab 1 heard Ann and then Bob: Bob is the current speaker and the last
\* of two entries.
C38_Witness ==
    /\ Len(cs[1].speakerHistory) = 2
    /\ cs[1].speakerHistory[1].speaker = <<"Ann">>
    /\ cs[1].speakerHistory[2].speaker = <<"Bob">>
    /\ cs[1].currentSpeaker = Some(<<"Bob">>)

====
